---- MODULE Spec2Model ----
(***************************************************************************)
(* Model of hello/src/lib.rs: the six functions that turn a                *)
(* HashMap<String, QuotesData> into a polars DataFrame, and the JsonReader *)
(* path.                                                                   *)
(*                                                                         *)
(* Values are written as the text of the Rust literal ("408065", "1396.0", *)
(* "NSE:INFY"); the type of a value is carried by the vector, AnyValue tag *)
(* or Series that holds it, as in the program.  An Option is a sequence of *)
(* length 0 (None / null) or 1 (Some).                                     *)
(*                                                                         *)
(* written is a history variable: for the functions that assign by index   *)
(* (v1, v2, v3) it counts the assignments to every slot of the scratch     *)
(* vectors during the call, and it keeps the counts of the last call.      *)
(***************************************************************************)
EXTENDS Integers, Sequences, FiniteSets, TLC

VARIABLES quote, fn, pc, iter, i, vecs, buf, dfbuf, series_buf, written, ret, prev

vars == <<quote, fn, pc, iter, i, vecs, buf, dfbuf, series_buf, written, ret, prev>>

(* ------------------------------ bounds --------------------------------- *)

\* largest number of instruments in the input map
MaxInstruments == 2

SymbolPool == <<"NSE:INFY", "NSE:TCS", "NSE:SBIN", "BSE:ITC">>

Symbols == {SymbolPool[n] : n \in 1..(IF MaxInstruments < 4 THEN MaxInstruments ELSE 4)}

(* ------------------------------ records -------------------------------- *)

\* the record of tests::test_quote_json, as a QuotesData
InfyData ==
    [instrument_token |-> "408065",
     timestamp |-> "2021-06-08 15:45:56",
     last_trade_time |-> "2021-06-08 15:45:52",
     last_price |-> "1412.95",
     last_quantity |-> "5",
     buy_quantity |-> "0",
     sell_quantity |-> "5191",
     volume |-> "7360198",
     average_price |-> "1412.47",
     oi |-> "0",
     oi_day_high |-> "0",
     oi_day_low |-> "0",
     net_change |-> "0.0",
     lower_circuit_limit |-> "1250.7",
     upper_circuit_limit |-> "1528.6",
     ohlc |-> [open |-> "1396.0", high |-> "1421.75", low |-> "1395.55", close |-> "1389.65"],
     depth |-> [buy |-> << [price |-> "0.0", quantity |-> "0", orders |-> "0"] >>,
                sell |-> << [price |-> "1412.95", quantity |-> "5191", orders |-> "13"] >>]]

\* a record whose 19 projected fields are pairwise different
TcsData ==
    [instrument_token |-> "2953217",
     timestamp |-> "2021-06-08 15:45:57",
     last_trade_time |-> "2021-06-08 15:45:53",
     last_price |-> "3245.1",
     last_quantity |-> "7",
     buy_quantity |-> "11",
     sell_quantity |-> "13",
     volume |-> "17",
     average_price |-> "3240.5",
     oi |-> "19",
     oi_day_high |-> "23",
     oi_day_low |-> "29",
     net_change |-> "1.5",
     lower_circuit_limit |-> "2920.6",
     upper_circuit_limit |-> "3569.6",
     ohlc |-> [open |-> "3230.0", high |-> "3250.0", low |-> "3225.2", close |-> "3243.6"],
     depth |-> [buy |-> << [price |-> "3245.0", quantity |-> "31", orders |-> "2"] >>,
                sell |-> << >>]]

\* QuotesData::default(): empty strings, zeros, empty depth
DefaultData ==
    [instrument_token |-> "0",
     timestamp |-> "",
     last_trade_time |-> "",
     last_price |-> "0.0",
     last_quantity |-> "0",
     buy_quantity |-> "0",
     sell_quantity |-> "0",
     volume |-> "0",
     average_price |-> "0.0",
     oi |-> "0",
     oi_day_high |-> "0",
     oi_day_low |-> "0",
     net_change |-> "0.0",
     lower_circuit_limit |-> "0.0",
     upper_circuit_limit |-> "0.0",
     ohlc |-> [open |-> "0.0", high |-> "0.0", low |-> "0.0", close |-> "0.0"],
     depth |-> [buy |-> << >>, sell |-> << >>]]

\* the records a symbol may carry: two per symbol, and records shared between symbols
QuotesDataOf(symbol) ==
    CASE symbol = "NSE:INFY" -> {InfyData, DefaultData}
      [] symbol = "NSE:TCS" -> {TcsData, DefaultData}
      [] symbol = "NSE:SBIN" -> {InfyData, TcsData}
      [] OTHER -> {TcsData, DefaultData}

\* Quotes.instruments: the maps from at most MaxInstruments symbols to their records
Quotes ==
    UNION {{m \in [S -> {InfyData, TcsData, DefaultData}] : \A k \in S : m[k] \in QuotesDataOf(k)} :
           S \in SUBSET Symbols}

\* the orders in which a HashMap holding the keys S can be iterated
IterOrders(S) ==
    {o \in [1..Cardinality(S) -> S] : \A a, b \in 1..Cardinality(S) : o[a] = o[b] => a = b}

(* ------------------------- QuotesData, OhlcInner ----------------------- *)

\* the declared Rust type of each expression the loops read
FieldType ==
    [symbol |-> "String",
     instrument_token |-> "u64",
     timestamp |-> "String",
     last_trade_time |-> "String",
     last_price |-> "f64",
     last_quantity |-> "u64",
     buy_quantity |-> "u64",
     sell_quantity |-> "u64",
     volume |-> "u64",
     average_price |-> "f64",
     oi |-> "u64",
     oi_day_high |-> "u64",
     oi_day_low |-> "u64",
     net_change |-> "f64",
     lower_circuit_limit |-> "f64",
     upper_circuit_limit |-> "f64",
     ohlc_open |-> "f64",
     ohlc_high |-> "f64",
     ohlc_low |-> "f64",
     ohlc_close |-> "f64"]

\* Eval with `q.ohlc.open` where `q.ohlc.close` is meant
Eval_slip(symbol, q, e) ==
    CASE e = "symbol" -> symbol
      [] e = "ohlc_open" -> q.ohlc.open
      [] e = "ohlc_high" -> q.ohlc.high
      [] e = "ohlc_low" -> q.ohlc.low
      [] e = "ohlc_close" -> q.ohlc.open
      [] OTHER -> q[e]

\* the value of expression e in the loop body for the entry (symbol, q)
Eval(symbol, q, e) ==
    CASE e = "symbol" -> symbol
      [] e = "ohlc_open" -> q.ohlc.open
      [] e = "ohlc_high" -> q.ohlc.high
      [] e = "ohlc_low" -> q.ohlc.low
      [] e = "ohlc_close" -> q.ohlc.close
      [] OTHER -> q[e]

(* ------------------------------- polars -------------------------------- *)

\* vec![x; n]
Repeat(x, n) == [r \in 1..n |-> x]

\* Option
Some(x) == <<x>>

None == << >>

\* Result<DataFrame, PolarsError>
Ok(df) == [ok |-> TRUE, table |-> Some(df), err |-> ""]

Err(e) == [ok |-> FALSE, table |-> None, err |-> e]

\* NativeDType for vectors of quantities declared Vec<i64>
NativeDType_signed(ty) ==
    CASE ty = "String" -> "String"
      [] ty = "u64" -> "Int64"
      [] ty = "f64" -> "Float64"

\* the DataType of a Series built by Series::new from a Vec of Rust type ty
NativeDType(ty) ==
    CASE ty = "String" -> "String"
      [] ty = "u64" -> "UInt64"
      [] ty = "f64" -> "Float64"

\* Series::new(name, &vec) for a vec whose elements have Rust type ty
SeriesNew(name, ty, vec) ==
    [name |-> name, dtype |-> NativeDType(ty), values |-> [r \in 1..Len(vec) |-> Some(vec[r])]]

\* AnyValue::Null
AnyNull == [tag |-> "Null", val |-> ""]

\* value.into() / AnyValue::StringOwned(value.into()) for a value of Rust type ty
IntoAnyValue(ty, v) ==
    CASE ty = "String" -> [tag |-> "StringOwned", val |-> v]
      [] ty = "u64" -> [tag |-> "UInt64", val |-> v]
      [] ty = "f64" -> [tag |-> "Float64", val |-> v]

\* whether the strict conversion to dtype accepts an AnyValue with this tag
Coercible(tag, dtype) ==
    \/ tag = "Null"
    \/ dtype = "String" /\ tag \in {"String", "StringOwned"}
    \/ dtype = "UInt64" /\ tag \in {"UInt64"}
    \/ dtype = "Float64" /\ tag \in {"Float64"}

\* the cell of a Series that holds an accepted AnyValue
CellOf(av) == IF av.tag = "Null" THEN None ELSE Some(av.val)

\* Series::from_any_values_and_dtype(name, values, dtype, strict = true)
FromAnyValuesAndDtype(name, values, dtype) ==
    IF \A r \in 1..Len(values) : Coercible(values[r].tag, dtype)
    THEN [ok |-> TRUE,
          series |-> Some([name |-> name, dtype |-> dtype,
                           values |-> [r \in 1..Len(values) |-> CellOf(values[r])]]),
          err |-> ""]
    ELSE [ok |-> FALSE, series |-> None, err |-> "TypeMismatch"]

\* DataFrameNew that rejects columns without rows
DataFrameNew_nonempty(columns) ==
    IF \E a \in 1..Len(columns) : Len(columns[a].values) = 0
    THEN Err("NoData")
    ELSE IF \E a, b \in 1..Len(columns) : Len(columns[a].values) # Len(columns[b].values)
    THEN Err("ColumnLengthMismatch")
    ELSE IF \E a, b \in 1..Len(columns) : a # b /\ columns[a].name = columns[b].name
    THEN Err("Duplicate")
    ELSE Ok(columns)

\* DataFrame::new(columns): equal lengths and distinct names, or an error
DataFrameNew(columns) ==
    IF \E a, b \in 1..Len(columns) : Len(columns[a].values) # Len(columns[b].values)
    THEN Err("ColumnLengthMismatch")
    ELSE IF \E a, b \in 1..Len(columns) : a # b /\ columns[a].name = columns[b].name
    THEN Err("Duplicate")
    ELSE Ok(columns)

\* the cells that the rows hand to the builder of column c (each row is zipped
\* with the builders, so a row shorter than c gives none)
RECURSIVE ColumnCells(_, _)
ColumnCells(rows, c) ==
    IF rows = << >> THEN << >>
    ELSE IF Len(Head(rows)) >= c
         THEN <<Head(rows)[c]>> \o ColumnCells(Tail(rows), c)
         ELSE ColumnCells(Tail(rows), c)

\* DataFrame::from_rows_and_schema(&rows, &schema)
FromRowsAndSchema(rows, schema) ==
    LET cells(c) == ColumnCells(rows, c)
        bad == \E c \in 1..Len(schema) : \E r \in 1..Len(cells(c)) :
                   ~Coercible(cells(c)[r].tag, schema[c].dtype)
    IN  IF bad THEN Err("TypeMismatch")
        ELSE DataFrameNew([c \in 1..Len(schema) |->
                 [name |-> schema[c].name, dtype |-> schema[c].dtype,
                  values |-> IF cells(c) = << >> THEN Repeat(None, Len(rows))
                             ELSE [r \in 1..Len(cells(c)) |-> CellOf(cells(c)[r])]]])

(* ------------------- the statements of the six functions ---------------- *)

\* the scratch vectors declared at the top of raghu, v0, v1 and v3
VecNames ==
    {"symbols", "instrument_tokens", "timestamps", "last_trade_times",
     "last_prices", "last_quantities", "buy_quantities", "sell_quantities",
     "volumes", "average_prices", "ois", "oi_day_highs",
     "oi_day_lows", "net_changes", "lower_circuit_limits", "upper_circuit_limits",
     "opens", "highs", "lows", "closes"}

\* raghu: the statements `vec.push(expr)` of the loop body, as <<vec, expr>>
raghu_loop ==
    <<
      <<"symbols", "symbol">>,
      <<"instrument_tokens", "instrument_token">>,
      <<"timestamps", "timestamp">>,
      <<"last_trade_times", "last_trade_time">>,
      <<"last_prices", "last_price">>,
      <<"last_quantities", "last_quantity">>,
      <<"buy_quantities", "buy_quantity">>,
      <<"sell_quantities", "sell_quantity">>,
      <<"volumes", "volume">>,
      <<"average_prices", "average_price">>,
      <<"ois", "oi">>,
      <<"oi_day_highs", "oi_day_high">>,
      <<"oi_day_lows", "oi_day_low">>,
      <<"net_changes", "net_change">>,
      <<"lower_circuit_limits", "lower_circuit_limit">>,
      <<"upper_circuit_limits", "upper_circuit_limit">>,
      <<"opens", "ohlc_open">>,
      <<"highs", "ohlc_high">>,
      <<"lows", "ohlc_low">>,
      <<"closes", "ohlc_close">> >>

\* raghu: the `Series::new(name, &vec)` handed to DataFrame::new, as <<name, vec>>
raghu_series ==
    <<
      <<"symbol", "symbols">>,
      <<"instrument_token", "instrument_tokens">>,
      <<"timestamp", "timestamps">>,
      <<"last_trade_time", "last_trade_times">>,
      <<"last_price", "last_prices">>,
      <<"last_quantity", "last_quantities">>,
      <<"buy_quantity", "buy_quantities">>,
      <<"sell_quantity", "sell_quantities">>,
      <<"volume", "volumes">>,
      <<"average_price", "average_prices">>,
      <<"oi", "ois">>,
      <<"oi_day_high", "oi_day_highs">>,
      <<"oi_day_low", "oi_day_lows">>,
      <<"net_change", "net_changes">>,
      <<"lower_circuit_limit", "lower_circuit_limits">>,
      <<"upper_circuit_limit", "upper_circuit_limits">>,
      <<"open", "opens">>,
      <<"high", "highs">>,
      <<"low", "lows">>,
      <<"close", "closes">> >>

\* v0: the statements `vec.push(expr)` of the loop body, as <<vec, expr>>
v0_loop ==
    <<
      <<"symbols", "symbol">>,
      <<"instrument_tokens", "instrument_token">>,
      <<"timestamps", "timestamp">>,
      <<"last_trade_times", "last_trade_time">>,
      <<"last_prices", "last_price">>,
      <<"last_quantities", "last_quantity">>,
      <<"buy_quantities", "buy_quantity">>,
      <<"sell_quantities", "sell_quantity">>,
      <<"volumes", "volume">>,
      <<"average_prices", "average_price">>,
      <<"ois", "oi">>,
      <<"oi_day_highs", "oi_day_high">>,
      <<"oi_day_lows", "oi_day_low">>,
      <<"net_changes", "net_change">>,
      <<"lower_circuit_limits", "lower_circuit_limit">>,
      <<"upper_circuit_limits", "upper_circuit_limit">>,
      <<"opens", "ohlc_open">>,
      <<"highs", "ohlc_high">>,
      <<"lows", "ohlc_low">>,
      <<"closes", "ohlc_close">> >>

\* v0: the statements `series_buf[k] = Series::new(name, &vec)`, as <<name, vec, k>>
v0_series ==
    <<
      <<"symbol", "symbols", 0>>,
      <<"instrument_token", "instrument_tokens", 1>>,
      <<"timestamp", "timestamps", 2>>,
      <<"last_trade_time", "last_trade_times", 3>>,
      <<"last_price", "last_prices", 4>>,
      <<"last_quantity", "last_quantities", 5>>,
      <<"buy_quantity", "buy_quantities", 6>>,
      <<"sell_quantity", "sell_quantities", 7>>,
      <<"volume", "volumes", 8>>,
      <<"average_price", "average_prices", 9>>,
      <<"oi", "ois", 10>>,
      <<"oi_day_high", "oi_day_highs", 11>>,
      <<"oi_day_low", "oi_day_lows", 12>>,
      <<"net_change", "net_changes", 13>>,
      <<"lower_circuit_limit", "lower_circuit_limits", 14>>,
      <<"upper_circuit_limit", "upper_circuit_limits", 15>>,
      <<"open", "opens", 16>>,
      <<"high", "highs", 17>>,
      <<"low", "lows", 18>>,
      <<"close", "closes", 19>> >>

\* v1: the statements `vec[i] = expr` of the loop body, as <<vec, expr>>
v1_loop ==
    <<
      <<"symbols", "symbol">>,
      <<"instrument_tokens", "instrument_token">>,
      <<"timestamps", "timestamp">>,
      <<"last_trade_times", "last_trade_time">>,
      <<"last_prices", "last_price">>,
      <<"last_quantities", "last_quantity">>,
      <<"buy_quantities", "buy_quantity">>,
      <<"sell_quantities", "sell_quantity">>,
      <<"volumes", "volume">>,
      <<"average_prices", "average_price">>,
      <<"ois", "oi">>,
      <<"oi_day_highs", "oi_day_high">>,
      <<"oi_day_lows", "oi_day_low">>,
      <<"net_changes", "net_change">>,
      <<"lower_circuit_limits", "lower_circuit_limit">>,
      <<"upper_circuit_limits", "upper_circuit_limit">>,
      <<"opens", "ohlc_open">>,
      <<"highs", "ohlc_high">>,
      <<"lows", "ohlc_low">>,
      <<"closes", "ohlc_close">> >>

\* v1: the `Series::new(name, &vec)` handed to DataFrame::new, as <<name, vec>>
v1_series ==
    <<
      <<"symbol", "symbols">>,
      <<"instrument_token", "instrument_tokens">>,
      <<"timestamp", "timestamps">>,
      <<"last_trade_time", "last_trade_times">>,
      <<"last_price", "last_prices">>,
      <<"last_quantity", "last_quantities">>,
      <<"buy_quantity", "buy_quantities">>,
      <<"sell_quantity", "sell_quantities">>,
      <<"volume", "volumes">>,
      <<"average_price", "average_prices">>,
      <<"oi", "ois">>,
      <<"oi_day_high", "oi_day_highs">>,
      <<"oi_day_low", "oi_day_lows">>,
      <<"net_change", "net_changes">>,
      <<"lower_circuit_limit", "lower_circuit_limits">>,
      <<"upper_circuit_limit", "upper_circuit_limits">>,
      <<"open", "opens">>,
      <<"high", "highs">>,
      <<"low", "lows">>,
      <<"close", "closes">> >>

\* v1: the literal of each `let mut vec = vec![literal; len]`
v1_init ==
    [symbols |-> "",
     instrument_tokens |-> "0",
     timestamps |-> "",
     last_trade_times |-> "",
     last_prices |-> "0.0",
     last_quantities |-> "0",
     buy_quantities |-> "0",
     sell_quantities |-> "0",
     volumes |-> "0",
     average_prices |-> "0.0",
     ois |-> "0",
     oi_day_highs |-> "0",
     oi_day_lows |-> "0",
     net_changes |-> "0.0",
     lower_circuit_limits |-> "0.0",
     upper_circuit_limits |-> "0.0",
     opens |-> "0.0",
     highs |-> "0.0",
     lows |-> "0.0",
     closes |-> "0.0"]

\* v3: the statements `vec[i] = expr` of the loop body, as <<vec, expr>>
v3_loop ==
    <<
      <<"symbols", "symbol">>,
      <<"instrument_tokens", "instrument_token">>,
      <<"timestamps", "timestamp">>,
      <<"last_trade_times", "last_trade_time">>,
      <<"last_prices", "last_price">>,
      <<"last_quantities", "last_quantity">>,
      <<"buy_quantities", "buy_quantity">>,
      <<"sell_quantities", "sell_quantity">>,
      <<"volumes", "volume">>,
      <<"average_prices", "average_price">>,
      <<"ois", "oi">>,
      <<"oi_day_highs", "oi_day_high">>,
      <<"oi_day_lows", "oi_day_low">>,
      <<"net_changes", "net_change">>,
      <<"lower_circuit_limits", "lower_circuit_limit">>,
      <<"upper_circuit_limits", "upper_circuit_limit">>,
      <<"opens", "ohlc_open">>,
      <<"highs", "ohlc_high">>,
      <<"lows", "ohlc_low">>,
      <<"closes", "ohlc_close">> >>

\* v3: the statements `series_buf[k] = Series::new(name, &vec)`, as <<name, vec, k>>
v3_series ==
    <<
      <<"symbol", "symbols", 0>>,
      <<"instrument_token", "instrument_tokens", 1>>,
      <<"timestamp", "timestamps", 2>>,
      <<"last_trade_time", "last_trade_times", 3>>,
      <<"last_price", "last_prices", 4>>,
      <<"last_quantity", "last_quantities", 5>>,
      <<"buy_quantity", "buy_quantities", 6>>,
      <<"sell_quantity", "sell_quantities", 7>>,
      <<"volume", "volumes", 8>>,
      <<"average_price", "average_prices", 9>>,
      <<"oi", "ois", 10>>,
      <<"oi_day_high", "oi_day_highs", 11>>,
      <<"oi_day_low", "oi_day_lows", 12>>,
      <<"net_change", "net_changes", 13>>,
      <<"lower_circuit_limit", "lower_circuit_limits", 14>>,
      <<"upper_circuit_limit", "upper_circuit_limits", 15>>,
      <<"open", "opens", 16>>,
      <<"high", "highs", 17>>,
      <<"low", "lows", 18>>,
      <<"close", "closes", 19>> >>

\* v3: the literal of each `vec.push(literal)` of the pre-fill loop
v3_init ==
    [symbols |-> "",
     instrument_tokens |-> "0",
     timestamps |-> "",
     last_trade_times |-> "",
     last_prices |-> "0.0",
     last_quantities |-> "0",
     buy_quantities |-> "0",
     sell_quantities |-> "0",
     volumes |-> "0",
     average_prices |-> "0.0",
     ois |-> "0",
     oi_day_highs |-> "0",
     oi_day_lows |-> "0",
     net_changes |-> "0.0",
     lower_circuit_limits |-> "0.0",
     upper_circuit_limits |-> "0.0",
     opens |-> "0.0",
     highs |-> "0.0",
     lows |-> "0.0",
     closes |-> "0.0"]

\* v2: the statements `buf[k][i] = expr` of the loop body, as <<k, expr>>
v2_loop ==
    <<
      <<0, "symbol">>,
      <<1, "instrument_token">>,
      <<2, "timestamp">>,
      <<3, "last_trade_time">>,
      <<4, "last_price">>,
      <<5, "last_quantity">>,
      <<6, "buy_quantity">>,
      <<7, "sell_quantity">>,
      <<8, "volume">>,
      <<9, "average_price">>,
      <<10, "oi">>,
      <<11, "oi_day_high">>,
      <<12, "oi_day_low">>,
      <<13, "net_change">>,
      <<14, "lower_circuit_limit">>,
      <<15, "upper_circuit_limit">>,
      <<16, "ohlc_open">>,
      <<17, "ohlc_high">>,
      <<18, "ohlc_low">>,
      <<19, "ohlc_close">> >>

\* v2: the statements `series_buf.push(from_any_values_and_dtype(name, &buf[k], dtype, true)?)`,
\* as <<name, k, dtype>>
v2_series ==
    <<
      <<"symbol", 0, "String">>,
      <<"instrument_token", 1, "UInt64">>,
      <<"timestamp", 2, "String">>,
      <<"last_trade_time", 3, "String">>,
      <<"last_price", 4, "Float64">>,
      <<"last_quantity", 5, "UInt64">>,
      <<"buy_quantity", 6, "UInt64">>,
      <<"sell_quantity", 7, "UInt64">>,
      <<"volume", 8, "UInt64">>,
      <<"average_price", 9, "Float64">>,
      <<"oi", 10, "UInt64">>,
      <<"oi_day_high", 11, "UInt64">>,
      <<"oi_day_low", 12, "UInt64">>,
      <<"net_change", 13, "Float64">>,
      <<"lower_circuit_limit", 14, "Float64">>,
      <<"upper_circuit_limit", 15, "Float64">>,
      <<"open", 16, "Float64">>,
      <<"high", 17, "Float64">>,
      <<"low", 18, "Float64">>,
      <<"close", 19, "Float64">> >>

\* rows_cols: the expressions of the statements `buf.push(expr)` of the loop body
rows_cols_loop ==
    <<
      "symbol",
      "instrument_token",
      "timestamp",
      "last_trade_time",
      "last_price",
      "last_quantity",
      "buy_quantity",
      "sell_quantity",
      "volume",
      "average_price",
      "oi",
      "oi_day_high",
      "oi_day_low",
      "net_change",
      "lower_circuit_limit",
      "upper_circuit_limit",
      "ohlc_open",
      "ohlc_high",
      "ohlc_low",
      "ohlc_close" >>

\* rows_cols: `schema`
rows_cols_schema ==
    <<
      [name |-> "symbol", dtype |-> "String"],
      [name |-> "instrument_token", dtype |-> "UInt64"],
      [name |-> "timestamp", dtype |-> "String"],
      [name |-> "last_trade_time", dtype |-> "String"],
      [name |-> "last_price", dtype |-> "Float64"],
      [name |-> "last_quantity", dtype |-> "UInt64"],
      [name |-> "buy_quantity", dtype |-> "UInt64"],
      [name |-> "sell_quantity", dtype |-> "UInt64"],
      [name |-> "volume", dtype |-> "UInt64"],
      [name |-> "average_price", dtype |-> "Float64"],
      [name |-> "oi", dtype |-> "UInt64"],
      [name |-> "oi_day_high", dtype |-> "UInt64"],
      [name |-> "oi_day_low", dtype |-> "UInt64"],
      [name |-> "net_change", dtype |-> "Float64"],
      [name |-> "lower_circuit_limit", dtype |-> "Float64"],
      [name |-> "upper_circuit_limit", dtype |-> "Float64"],
      [name |-> "open", dtype |-> "Float64"],
      [name |-> "high", dtype |-> "Float64"],
      [name |-> "low", dtype |-> "Float64"],
      [name |-> "close", dtype |-> "Float64"] >>

(* ------------------------------ helpers -------------------------------- *)

\* the element type rustc infers for vec from the expression stored into it
VecType(loop, vec) ==
    FieldType[(CHOOSE st \in {loop[n] : n \in 1..Len(loop)} : st[1] = vec)[2]]

\* the statements `vec.push(expr)` executed in order for the entry (symbol, q)
RECURSIVE Pushes(_, _, _, _)
Pushes(vs, stmts, symbol, q) ==
    IF stmts = << >> THEN vs
    ELSE Pushes([vs EXCEPT ![Head(stmts)[1]] = Append(@, Eval(symbol, q, Head(stmts)[2]))],
                Tail(stmts), symbol, q)

\* Writes that takes the record of the entry at the mirrored position of the
\* iteration, as when keys and values are walked in different orders
RECURSIVE Writes_misaligned(_, _, _, _, _)
Writes_misaligned(vs, stmts, idx, symbol, q) ==
    IF stmts = << >> THEN vs
    ELSE Writes_misaligned(
             [vs EXCEPT ![Head(stmts)[1]][idx + 1] =
                 Eval(symbol, quote[iter[Len(iter) - idx]], Head(stmts)[2])],
             Tail(stmts), idx, symbol, q)

\* Writes with an index that stays at the first row
RECURSIVE Writes_unadvanced(_, _, _, _, _)
Writes_unadvanced(vs, stmts, idx, symbol, q) ==
    IF stmts = << >> THEN vs
    ELSE Writes_unadvanced([vs EXCEPT ![Head(stmts)[1]][1] = Eval(symbol, q, Head(stmts)[2])],
                           Tail(stmts), idx, symbol, q)

\* the statements `vec[idx] = expr` executed in order for the entry (symbol, q)
RECURSIVE Writes(_, _, _, _, _)
Writes(vs, stmts, idx, symbol, q) ==
    IF stmts = << >> THEN vs
    ELSE Writes([vs EXCEPT ![Head(stmts)[1]][idx + 1] = Eval(symbol, q, Head(stmts)[2])],
                Tail(stmts), idx, symbol, q)

\* how often each slot has been assigned: the slots `vec[idx]` of the statements
RECURSIVE Counted(_, _, _)
Counted(w, stmts, idx) ==
    IF stmts = << >> THEN w
    ELSE Counted([w EXCEPT ![Head(stmts)[1]][idx + 1] = @ + 1], Tail(stmts), idx)

\* how often each slot has been assigned: the slots `buf[k][idx]` of the statements
RECURSIVE AnyCounted(_, _, _)
AnyCounted(w, stmts, idx) ==
    IF stmts = << >> THEN w
    ELSE AnyCounted([w EXCEPT ![Head(stmts)[1] + 1][idx + 1] = @ + 1], Tail(stmts), idx)

\* the statements `buf[k][idx] = expr.into()` executed in order
RECURSIVE AnyWrites(_, _, _, _, _)
AnyWrites(b, stmts, idx, symbol, q) ==
    IF stmts = << >> THEN b
    ELSE AnyWrites([b EXCEPT ![Head(stmts)[1] + 1][idx + 1] =
                        IntoAnyValue(FieldType[Head(stmts)[2]], Eval(symbol, q, Head(stmts)[2]))],
                   Tail(stmts), idx, symbol, q)

\* the statements `buf.push(expr.into())` executed in order
RECURSIVE AnyPushes(_, _, _, _)
AnyPushes(b, stmts, symbol, q) ==
    IF stmts = << >> THEN b
    ELSE AnyPushes(Append(b, IntoAnyValue(FieldType[Head(stmts)], Eval(symbol, q, Head(stmts)))),
                   Tail(stmts), symbol, q)

\* the 20 columns `Series::new("symbol", vec![0u64; len])` pushed by `for _ in 0..20`
Placeholders(len) == [k \in 1..20 |-> SeriesNew("symbol", "u64", Repeat("0", len))]

\* quote.instruments.len()
QuoteLen == Cardinality(DOMAIN quote)

\* EntrySymbol of a loop that restarts the iteration on every pass
EntrySymbol_restarted(idx) == iter[1]

\* the entry the iteration yields at position idx (0-based)
EntrySymbol(idx) == iter[idx + 1]

\* `vec![Series::new(name, &vec), ...]` of a function with the given loop and series
SeriesList(loop, series, vs) ==
    [k \in 1..Len(series) |-> SeriesNew(series[k][1], VecType(loop, series[k][2]), vs[series[k][2]])]

(* ------------------------------ actions -------------------------------- *)

Init ==
    /\ quote \in Quotes
    /\ fn = "none"
    /\ pc = "idle"
    /\ iter = << >>
    /\ i = 0
    /\ vecs = << >>
    /\ buf = << >>
    /\ dfbuf = << >>
    /\ series_buf = << >>
    /\ written = << >>
    /\ ret = None
    /\ prev = None

\* a call of f on quotes.clone(): the map is iterated in some order; the caller
\* keeps the table it got from the materializer called before
Enter(f) ==
    /\ pc = "idle"
    /\ fn' = f
    /\ pc' = "loop"
    /\ iter' \in IterOrders(DOMAIN quote)
    /\ i' = 0
    /\ prev' = IF ret # None /\ ret[1].fn \in {"raghu", "v0", "v1", "v2", "v3", "rows_cols"}
                THEN ret ELSE prev
    /\ ret' = None
    /\ UNCHANGED quote

\* f returns res; its locals are dropped
Return(f, res) ==
    /\ fn' = "none"
    /\ pc' = "idle"
    /\ iter' = << >>
    /\ i' = 0
    /\ vecs' = << >>
    /\ buf' = << >>
    /\ dfbuf' = << >>
    /\ series_buf' = << >>
    /\ ret' = Some([fn |-> f, res |-> res])
    /\ UNCHANGED <<quote, prev, written>>

\* one more entry of the iteration is consumed
Advance ==
    /\ i' = i + 1
    /\ UNCHANGED <<quote, fn, pc, iter, ret, prev>>

\* an index or an assertion failed: the thread panics and nothing is returned
Panic ==
    /\ pc' = "panic"
    /\ UNCHANGED <<quote, fn, iter, i, vecs, buf, dfbuf, series_buf, ret, prev, written>>

(* quote_to_polars_df_from_series_raghu *)

raghu_call ==
    /\ Enter("raghu")
    /\ vecs' = [v \in VecNames |-> << >>]
    /\ written' = << >>
    /\ UNCHANGED <<buf, dfbuf, series_buf>>

raghu_for ==
    /\ fn = "raghu" /\ pc = "loop" /\ i < QuoteLen
    /\ vecs' = Pushes(vecs, raghu_loop, EntrySymbol(i), quote[EntrySymbol(i)])
    /\ Advance
    /\ UNCHANGED <<buf, dfbuf, series_buf, written>>

raghu_result == DataFrameNew(SeriesList(raghu_loop, raghu_series, vecs))

raghu_return ==
    /\ fn = "raghu" /\ pc = "loop" /\ i = QuoteLen
    /\ Return("raghu", raghu_result)

(* quote_to_polars_df_from_series_v0 *)

v0_call ==
    /\ Enter("v0")
    /\ vecs' = [v \in VecNames |-> << >>]
    /\ series_buf' = Placeholders(QuoteLen)
    /\ written' = << >>
    /\ UNCHANGED <<buf, dfbuf>>

v0_for ==
    /\ fn = "v0" /\ pc = "loop" /\ i < QuoteLen
    /\ vecs' = Pushes(vecs, v0_loop, EntrySymbol(i), quote[EntrySymbol(i)])
    /\ Advance
    /\ UNCHANGED <<buf, dfbuf, series_buf, written>>

\* assert_eq!(series_buf.len(), 20)
v0_assert ==
    /\ fn = "v0" /\ pc = "loop" /\ i = QuoteLen
    /\ IF Len(series_buf) = 20
       THEN /\ pc' = "build"
            /\ i' = 0
            /\ UNCHANGED <<quote, fn, iter, vecs, buf, dfbuf, series_buf, ret, prev, written>>
       ELSE Panic

\* v0_overwrite without the last of its statements
v0_overwrite_unfinished ==
    /\ fn = "v0" /\ pc = "build" /\ i < Len(v0_series)
    /\ series_buf' = IF i + 1 = Len(v0_series) THEN series_buf
                     ELSE [series_buf EXCEPT ![v0_series[i + 1][3] + 1] =
                              SeriesNew(v0_series[i + 1][1], VecType(v0_loop, v0_series[i + 1][2]),
                                        vecs[v0_series[i + 1][2]])]
    /\ i' = i + 1
    /\ UNCHANGED <<quote, fn, pc, iter, vecs, buf, dfbuf, ret, prev, written>>

\* the next of the 20 statements `series_buf[k] = Series::new(name, &vec)`
v0_overwrite ==
    /\ fn = "v0" /\ pc = "build" /\ i < Len(v0_series)
    /\ IF v0_series[i + 1][3] < Len(series_buf)
       THEN /\ series_buf' = [series_buf EXCEPT ![v0_series[i + 1][3] + 1] =
                   SeriesNew(v0_series[i + 1][1], VecType(v0_loop, v0_series[i + 1][2]),
                             vecs[v0_series[i + 1][2]])]
            /\ i' = i + 1
            /\ UNCHANGED <<quote, fn, pc, iter, vecs, buf, dfbuf, ret, prev, written>>
       ELSE Panic

v0_return ==
    /\ fn = "v0" /\ pc = "build" /\ i = Len(v0_series)
    /\ Return("v0", DataFrameNew(series_buf))

(* quote_to_polars_df_from_series_v1 *)

v1_call ==
    /\ Enter("v1")
    /\ vecs' = [v \in VecNames |-> Repeat(v1_init[v], QuoteLen)]
    /\ written' = [v \in VecNames |-> Repeat(0, QuoteLen)]
    /\ UNCHANGED <<buf, dfbuf, series_buf>>

v1_for ==
    /\ fn = "v1" /\ pc = "loop" /\ i < QuoteLen
    /\ IF \A n \in 1..Len(v1_loop) : i < Len(vecs[v1_loop[n][1]])
       THEN /\ vecs' = Writes(vecs, v1_loop, i, EntrySymbol(i), quote[EntrySymbol(i)])
            /\ Advance
            /\ written' = Counted(written, v1_loop, i)
            /\ UNCHANGED <<buf, dfbuf, series_buf>>
       ELSE Panic

\* v1 building its columns through AnyValue staging, with the dtype of
\* last_price taken from the line above it
v1_result_staged ==
    LET conv(k) ==
            FromAnyValuesAndDtype(
                v1_series[k][1],
                [r \in 1..Len(vecs[v1_series[k][2]]) |->
                    IntoAnyValue(VecType(v1_loop, v1_series[k][2]), vecs[v1_series[k][2]][r])],
                IF v1_series[k][1] = "last_price" THEN "UInt64"
                ELSE NativeDType(VecType(v1_loop, v1_series[k][2])))
    IN  IF \E k \in 1..Len(v1_series) : ~conv(k).ok THEN Err("TypeMismatch")
        ELSE DataFrameNew([k \in 1..Len(v1_series) |-> conv(k).series[1]])

v1_result == DataFrameNew(SeriesList(v1_loop, v1_series, vecs))

v1_return ==
    /\ fn = "v1" /\ pc = "loop" /\ i = QuoteLen
    /\ Return("v1", v1_result)

(* quote_to_polars_df_from_series_v2 *)

v2_call ==
    /\ Enter("v2")
    /\ series_buf' = << >>
    /\ buf' = Repeat(Repeat(AnyNull, QuoteLen), 20)
    /\ written' = Repeat(Repeat(0, QuoteLen), 20)
    /\ UNCHANGED <<vecs, dfbuf>>

v2_for ==
    /\ fn = "v2" /\ pc = "loop" /\ i < QuoteLen
    /\ IF /\ Len(buf) = 20
          /\ \A n \in 1..Len(v2_loop) : v2_loop[n][1] < Len(buf) /\ i < Len(buf[v2_loop[n][1] + 1])
       THEN /\ buf' = AnyWrites(buf, v2_loop, i, EntrySymbol(i), quote[EntrySymbol(i)])
            /\ Advance
            /\ written' = AnyCounted(written, v2_loop, i)
            /\ UNCHANGED <<vecs, dfbuf, series_buf>>
       ELSE Panic

\* the loop is over: on to the 20 conversions
v2_convert ==
    /\ fn = "v2" /\ pc = "loop" /\ i = QuoteLen
    /\ pc' = "build"
    /\ i' = 0
    /\ UNCHANGED <<quote, fn, iter, vecs, buf, dfbuf, series_buf, ret, prev, written>>

\* the k-th conversion of v2
v2_series_k(k) == FromAnyValuesAndDtype(v2_series[k][1], buf[v2_series[k][2] + 1], v2_series[k][3])

\* series_buf.push(Series::from_any_values_and_dtype(name, &buf[k], &dtype, true)?)
v2_push ==
    /\ fn = "v2" /\ pc = "build" /\ i < Len(v2_series)
    /\ IF v2_series_k(i + 1).ok
       THEN /\ series_buf' = Append(series_buf, v2_series_k(i + 1).series[1])
            /\ i' = i + 1
            /\ UNCHANGED <<quote, fn, pc, iter, vecs, buf, dfbuf, ret, prev, written>>
       ELSE Return("v2", Err(v2_series_k(i + 1).err))

v2_return ==
    /\ fn = "v2" /\ pc = "build" /\ i = Len(v2_series)
    /\ Return("v2", DataFrameNew(series_buf))

(* quote_to_polars_df_from_series_v3 *)

v3_call ==
    /\ Enter("v3")
    /\ series_buf' = Placeholders(QuoteLen)
    /\ vecs' = [v \in VecNames |-> Repeat(v3_init[v], QuoteLen)]
    /\ written' = [v \in VecNames |-> Repeat(0, QuoteLen)]
    /\ UNCHANGED <<buf, dfbuf>>

v3_for ==
    /\ fn = "v3" /\ pc = "loop" /\ i < QuoteLen
    /\ IF \A n \in 1..Len(v3_loop) : i < Len(vecs[v3_loop[n][1]])
       THEN /\ vecs' = Writes(vecs, v3_loop, i, EntrySymbol(i), quote[EntrySymbol(i)])
            /\ Advance
            /\ written' = Counted(written, v3_loop, i)
            /\ UNCHANGED <<buf, dfbuf, series_buf>>
       ELSE Panic

\* assert_eq!(series_buf.len(), 20)
v3_assert ==
    /\ fn = "v3" /\ pc = "loop" /\ i = QuoteLen
    /\ IF Len(series_buf) = 20
       THEN /\ pc' = "build"
            /\ i' = 0
            /\ UNCHANGED <<quote, fn, iter, vecs, buf, dfbuf, series_buf, ret, prev, written>>
       ELSE Panic

\* the next of the 20 statements `series_buf[k] = Series::new(name, &vec)`
v3_overwrite ==
    /\ fn = "v3" /\ pc = "build" /\ i < Len(v3_series)
    /\ IF v3_series[i + 1][3] < Len(series_buf)
       THEN /\ series_buf' = [series_buf EXCEPT ![v3_series[i + 1][3] + 1] =
                   SeriesNew(v3_series[i + 1][1], VecType(v3_loop, v3_series[i + 1][2]),
                             vecs[v3_series[i + 1][2]])]
            /\ i' = i + 1
            /\ UNCHANGED <<quote, fn, pc, iter, vecs, buf, dfbuf, ret, prev, written>>
       ELSE Panic

v3_return ==
    /\ fn = "v3" /\ pc = "build" /\ i = Len(v3_series)
    /\ Return("v3", DataFrameNew(series_buf))

(* quote_to_polars_df_from_rows_cols *)

rows_cols_call ==
    /\ Enter("rows_cols")
    /\ dfbuf' = << >>
    /\ buf' = << >>
    /\ written' = << >>
    /\ UNCHANGED <<vecs, series_buf>>

\* rows_cols_row without `buf.clear()`
rows_cols_row_noclear(symbol, q) == AnyPushes(buf, rows_cols_loop, symbol, q)

\* buf.clear(); the 20 pushes; dfbuf.push(Row::new(buf.clone()))
rows_cols_row(symbol, q) == AnyPushes(<< >>, rows_cols_loop, symbol, q)

\* rows_cols_for whose rows all share the one buffer
rows_cols_for_shared ==
    /\ fn = "rows_cols" /\ pc = "loop" /\ i < QuoteLen
    /\ buf' = rows_cols_row(EntrySymbol(i), quote[EntrySymbol(i)])
    /\ dfbuf' = Repeat(buf', Len(dfbuf) + 1)
    /\ Advance
    /\ UNCHANGED <<vecs, series_buf, written>>

rows_cols_for ==
    /\ fn = "rows_cols" /\ pc = "loop" /\ i < QuoteLen
    /\ buf' = rows_cols_row(EntrySymbol(i), quote[EntrySymbol(i)])
    /\ dfbuf' = Append(dfbuf, buf')
    /\ Advance
    /\ UNCHANGED <<vecs, series_buf, written>>

rows_cols_return ==
    /\ fn = "rows_cols" /\ pc = "loop" /\ i = QuoteLen
    /\ Return("rows_cols", FromRowsAndSchema(dfbuf, rows_cols_schema))

(* quote_to_polars_df_from_json *)

\* `schema`
json_schema ==
    <<
      [name |-> "symbol", dtype |-> "String"],
      [name |-> "instrument_token", dtype |-> "UInt64"],
      [name |-> "timestamp", dtype |-> "String"],
      [name |-> "last_trade_time", dtype |-> "String"],
      [name |-> "last_price", dtype |-> "Float64"],
      [name |-> "last_quantity", dtype |-> "UInt64"],
      [name |-> "buy_quantity", dtype |-> "UInt64"],
      [name |-> "sell_quantity", dtype |-> "UInt64"],
      [name |-> "volume", dtype |-> "UInt64"],
      [name |-> "average_price", dtype |-> "Float64"],
      [name |-> "oi", dtype |-> "UInt64"],
      [name |-> "oi_day_high", dtype |-> "UInt64"],
      [name |-> "oi_day_low", dtype |-> "UInt64"],
      [name |-> "net_change", dtype |-> "Float64"],
      [name |-> "lower_circuit_limit", dtype |-> "Float64"],
      [name |-> "upper_circuit_limit", dtype |-> "Float64"],
      [name |-> "open", dtype |-> "Float64"],
      [name |-> "high", dtype |-> "Float64"],
      [name |-> "low", dtype |-> "Float64"],
      [name |-> "close", dtype |-> "Float64"] >>

\* .infer_schema_len(Some(NonZeroUsize::new(100).unwrap()))
InferSchemaLen == 100

\* longest document, in rows, among the short documents
MaxJsonRows == 1

\* a row of the document: a flat object with the 20 fields, each a JSON scalar
\* [kind, text] with kind "int", "float", "string" or "null"
JsonRow ==
    [symbol |-> [kind |-> "string", text |-> "NSE:INFY"],
     instrument_token |-> [kind |-> "int", text |-> "408065"],
     timestamp |-> [kind |-> "string", text |-> "2021-06-08 15:45:56"],
     last_trade_time |-> [kind |-> "string", text |-> "2021-06-08 15:45:52"],
     last_price |-> [kind |-> "float", text |-> "1412.95"],
     last_quantity |-> [kind |-> "int", text |-> "5"],
     buy_quantity |-> [kind |-> "int", text |-> "0"],
     sell_quantity |-> [kind |-> "int", text |-> "5191"],
     volume |-> [kind |-> "int", text |-> "7360198"],
     average_price |-> [kind |-> "float", text |-> "1412.47"],
     oi |-> [kind |-> "int", text |-> "0"],
     oi_day_high |-> [kind |-> "int", text |-> "0"],
     oi_day_low |-> [kind |-> "int", text |-> "0"],
     net_change |-> [kind |-> "float", text |-> "0.0"],
     lower_circuit_limit |-> [kind |-> "float", text |-> "1250.7"],
     upper_circuit_limit |-> [kind |-> "float", text |-> "1528.6"],
     open |-> [kind |-> "float", text |-> "1396.0"],
     high |-> [kind |-> "float", text |-> "1421.75"],
     low |-> [kind |-> "float", text |-> "1395.55"],
     close |-> [kind |-> "float", text |-> "1389.65"]]

\* the same row with the float fields `open` and `net_change` written as integers
JsonRowIntLike ==
    [JsonRow EXCEPT !["open"] = [kind |-> "int", text |-> "1396"],
                    !["net_change"] = [kind |-> "int", text |-> "0"]]

\* the same row with a string where last_price is declared a float
JsonRowBad == [JsonRow EXCEPT !["last_price"] = [kind |-> "string", text |-> "n/a"]]

\* the same row with timestamp null
JsonRowNull == [JsonRow EXCEPT !["timestamp"] = [kind |-> "null", text |-> ""]]

JsonRows == {JsonRow, JsonRowIntLike, JsonRowBad, JsonRowNull}

\* the documents read: every array of at most MaxJsonRows rows, and the arrays
\* of InferSchemaLen rows followed by one more row
JsonDocs ==
    UNION {[1..n -> JsonRows] : n \in 0..MaxJsonRows}
    \cup {Repeat(a, InferSchemaLen) \o <<b>> : a \in {JsonRow, JsonRowIntLike}, b \in JsonRows}

\* the keys of the objects, in document order
JsonKeys == [k \in 1..Len(json_schema) |-> json_schema[k].name]

\* the DataType inferred for one JSON scalar
InferScalar(v) ==
    CASE v.kind = "int" -> "Int64"
      [] v.kind = "float" -> "Float64"
      [] v.kind = "string" -> "String"
      [] v.kind = "null" -> "Null"

\* try_get_supertype of two inferred types
Supertype(a, b) ==
    IF a = b THEN a
    ELSE IF a = "Null" THEN b
    ELSE IF b = "Null" THEN a
    ELSE IF {a, b} = {"Int64", "Float64"} THEN "Float64"
    ELSE "String"

\* the type inferred for a key from the rows 1..n of the document: the types of
\* the n scalars reduced with Supertype, i.e. the one that absorbs all of them
InferKey(doc, key, n) ==
    LET seen == {InferScalar(doc[r][key]) : r \in 1..n}
    IN  CHOOSE t \in {"Null", "Int64", "Float64", "String"} :
            /\ \A u \in seen : Supertype(t, u) = t
            /\ \A v \in {"Null", "Int64", "Float64", "String"} :
                   (\A u \in seen : Supertype(v, u) = v) => Supertype(v, t) = v

\* the schema inferred from the first infer_schema_len rows (none for no rows)
InferSchema(doc, infer_schema_len) ==
    LET n == IF Len(doc) < infer_schema_len THEN Len(doc) ELSE infer_schema_len
    IN  IF n = 0 THEN << >>
        ELSE [k \in 1..Len(JsonKeys) |-> [name |-> JsonKeys[k], dtype |-> InferKey(doc, JsonKeys[k], n)]]

\* whether .with_schema_overwrite(&schema) finds every declared name in the inferred schema
OverwriteFinds(inferred, overwrite) ==
    \A k \in 1..Len(overwrite) : \E j \in 1..Len(inferred) : inferred[j].name = overwrite[k].name

\* OverwriteSchema that keeps the inferred types
OverwriteSchema_inferred(inferred, overwrite) == inferred

\* the inferred schema with the types of the declared names overwritten
OverwriteSchema(inferred, overwrite) ==
    [j \in 1..Len(inferred) |->
        IF \E k \in 1..Len(overwrite) : overwrite[k].name = inferred[j].name
        THEN [name |-> inferred[j].name,
              dtype |-> (CHOOSE f \in {overwrite[k] : k \in 1..Len(overwrite)} :
                            f.name = inferred[j].name).dtype]
        ELSE inferred[j]]

\* whether a JSON scalar can be read into a column of this type
JsonCoercible(v, dtype) ==
    \/ v.kind = "null"
    \/ dtype = "String" /\ v.kind \in {"string", "int", "float"}
    \/ dtype \in {"Float64", "Int64", "UInt64"} /\ v.kind \in {"int", "float"}

\* the cell a JSON scalar gives in a column of this type; a scalar that cannot
\* be read gives null
JsonCell(v, dtype) ==
    IF v.kind = "null" \/ ~JsonCoercible(v, dtype) THEN None
    ELSE IF dtype = "Float64" /\ v.kind = "int" THEN Some(v.text \o ".0")
    ELSE Some(v.text)

\* JsonReader::new(json).with_json_format(Json).infer_schema_len(..)
\*     .with_schema_overwrite(&schema).finish()
\* raises: whether the reader raises on a scalar it cannot read (otherwise the
\* cell is null)
JsonReaderFinish(doc, infer_schema_len, overwrite, raises) ==
    LET inferred == InferSchema(doc, infer_schema_len)
        schema == OverwriteSchema(inferred, overwrite)
    IN  IF inferred = << >> THEN Err("ComputeError")
        ELSE IF ~OverwriteFinds(inferred, overwrite) THEN Err("SchemaFieldNotFound")
        ELSE IF raises /\ \E c \in 1..Len(schema) : \E r \in 1..Len(doc) :
                    ~JsonCoercible(doc[r][schema[c].name], schema[c].dtype)
        THEN Err("SchemaViolation")
        ELSE Ok([c \in 1..Len(schema) |->
                 [name |-> schema[c].name, dtype |-> schema[c].dtype,
                  values |-> [r \in 1..Len(doc) |-> JsonCell(doc[r][schema[c].name], schema[c].dtype)]]])

\* json_result that, when the reader fails, reads again the rows it can read
json_result_partial(doc, raises) ==
    LET df == JsonReaderFinish(doc, InferSchemaLen, json_schema, raises)
        readable(row) == \A c \in 1..Len(json_schema) :
                             JsonCoercible(row[json_schema[c].name], json_schema[c].dtype)
        rest == JsonReaderFinish(SelectSeq(doc, readable), InferSchemaLen, json_schema, raises)
    IN  IF df.ok THEN [ok |-> TRUE, table |-> Some(df.table[1]), err |-> ""]
        ELSE IF rest.ok THEN [ok |-> TRUE, table |-> Some(rest.table[1]), err |-> ""]
        ELSE Err(df.err)

\* json_result that answers a document without rows with Ok(None)
json_result_absent(doc, raises) ==
    LET df == JsonReaderFinish(doc, InferSchemaLen, json_schema, raises)
    IN  IF doc = << >> THEN [ok |-> TRUE, table |-> None, err |-> ""]
        ELSE IF df.ok THEN [ok |-> TRUE, table |-> Some(df.table[1]), err |-> ""]
        ELSE Err(df.err)

\* the whole function: `let df = ...finish()?; Ok(Some(df))`
json_result(doc, raises) ==
    LET df == JsonReaderFinish(doc, InferSchemaLen, json_schema, raises)
    IN  IF df.ok THEN [ok |-> TRUE, table |-> Some(df.table[1]), err |-> ""]
        ELSE Err(df.err)

\* what a call returns, for each document and each reader
JsonReturns ==
    {[fn |-> "json", res |-> json_result(doc, raises), json |-> doc] :
        doc \in JsonDocs, raises \in BOOLEAN}

\* a call of quote_to_polars_df_from_json on a reader over some document; the
\* decoder is independent of the materializers and is called first
json_call ==
    /\ pc = "idle" /\ ret = None /\ prev = None
    /\ ret' \in {Some(r) : r \in JsonReturns}
    /\ UNCHANGED <<quote, fn, pc, iter, i, vecs, buf, dfbuf, series_buf, prev, written>>

(* ------------------ chrono: NaiveDateTime and DT_FORMAT ----------------- *)

\* Text that is formatted or parsed is a sequence of one-character strings.
\* A NaiveDateTime is [year, month, day, hour, minute, second, leap], a whole
\* second as NaiveDate::from_ymd(..).and_hms(..) and parse_from_str build it;
\* leap marks the leap second that is written as second 60.

Digits == <<"0", "1", "2", "3", "4", "5", "6", "7", "8", "9">>

IsDigit(c) == \E n \in 1..10 : Digits[n] = c

DigitValue(c) == (CHOOSE n \in 1..10 : Digits[n] = c) - 1

Pad2(n) == <<Digits[((n \div 10) % 10) + 1], Digits[(n % 10) + 1]>>

Pad4(n) == Pad2(n \div 100) \o Pad2(n % 100)

\* dt.format("%Y-%m-%d %H:%M:%S").to_string()
Format(dt) ==
    Pad4(dt.year) \o <<"-">> \o Pad2(dt.month) \o <<"-">> \o Pad2(dt.day) \o <<" ">>
    \o Pad2(dt.hour) \o <<":">> \o Pad2(dt.minute) \o <<":">>
    \o Pad2(IF dt.leap THEN 60 ELSE dt.second)

\* a numeric item of the format: at least one and at most max digits from pos
TakeNumber(s, pos, max) ==
    LET n == CHOOSE k \in 0..max :
                 /\ \A j \in 0..(k - 1) : pos + j <= Len(s) /\ IsDigit(s[pos + j])
                 /\ (k = max \/ pos + k > Len(s) \/ ~IsDigit(s[pos + k]))
        digits == [j \in 1..n |-> DigitValue(s[pos + j - 1])]
        value[j \in 0..n] == IF j = 0 THEN 0 ELSE value[j - 1] * 10 + digits[j]
    IN  [ok |-> n >= 1, value |-> value[n], next |-> pos + n]

\* a literal character of the format
TakeLiteral(s, pos, c) == [ok |-> pos <= Len(s) /\ s[pos] = c, next |-> pos + 1]

DaysInMonth(year, month) ==
    IF month = 2
    THEN IF (year % 4 = 0 /\ year % 100 # 0) \/ year % 400 = 0 THEN 29 ELSE 28
    ELSE IF month \in {4, 6, 9, 11} THEN 30 ELSE 31

\* NaiveDateTime::parse_from_str(&text, "%Y-%m-%d %H:%M:%S")
ParseFromStr(s) ==
    LET year == TakeNumber(s, 1, 4)
        d1 == TakeLiteral(s, year.next, "-")
        month == TakeNumber(s, d1.next, 2)
        d2 == TakeLiteral(s, month.next, "-")
        day == TakeNumber(s, d2.next, 2)
        sp == TakeLiteral(s, day.next, " ")
        hour == TakeNumber(s, sp.next, 2)
        c1 == TakeLiteral(s, hour.next, ":")
        minute == TakeNumber(s, c1.next, 2)
        c2 == TakeLiteral(s, minute.next, ":")
        second == TakeNumber(s, c2.next, 2)
        shaped == /\ year.ok /\ d1.ok /\ month.ok /\ d2.ok /\ day.ok /\ sp.ok
                  /\ hour.ok /\ c1.ok /\ minute.ok /\ c2.ok /\ second.ok
                  /\ second.next = Len(s) + 1
    IN  IF ~shaped THEN [ok |-> FALSE, value |-> None, err |-> "ParseError"]
        ELSE IF ~ /\ month.value \in 1..12
                  /\ day.value \in 1..DaysInMonth(year.value, month.value)
                  /\ hour.value \in 0..23
                  /\ minute.value \in 0..59
                  /\ second.value \in 0..60
        THEN [ok |-> FALSE, value |-> None, err |-> "ParseError"]
        ELSE [ok |-> TRUE,
              value |-> Some([year |-> year.value, month |-> month.value, day |-> day.value,
                              hour |-> hour.value, minute |-> minute.value,
                              second |-> IF second.value = 60 THEN 59 ELSE second.value,
                              leap |-> second.value = 60]),
              err |-> ""]

(* ------------------------- serde and serde_json ------------------------- *)

\* A JSON document is kept as its value: a scalar [kind, text] with kind
\* "string" (text a sequence of characters), "int", "float" (text the number
\* as written) or "null"; an object [kind |-> "object", members |-> a function
\* from its keys]; an array [kind |-> "array", items |-> a sequence].
\* A Rust type is a sequence: <<"u64">>, <<"Option", T>>, <<"Vec", T>>,
\* <<"HashMap", T>> (keys are String), <<"with", module>> for a field with
\* #[serde(with = "module")].

JsonNull == [kind |-> "null", text |-> ""]

JsonString(chars) == [kind |-> "string", text |-> chars]

JsonObject(members) == [kind |-> "object", members |-> members]

JsonArray(items) == [kind |-> "array", items |-> items]

\* the fields of the structs, in declaration order: <<name, type, skip>> where
\* skip says #[serde(skip_serializing_if = "Option::is_none")]
StructFields(ty) ==
    CASE ty = <<"Quote">> ->
             << <<"status", <<"Status">>, FALSE>>,
                <<"data", <<"Option", <<"HashMap", <<"QuoteData">> >> >>, TRUE>>,
                <<"message", <<"Option", <<"String">> >>, TRUE>>,
                <<"error_type", <<"Option", <<"Exception">> >>, TRUE>> >>
      [] ty = <<"QuoteData">> ->
             << <<"instrument_token", <<"u64">>, FALSE>>,
                <<"timestamp", <<"with", "optional_naive_date_time_from_str">>, TRUE>>,
                <<"last_trade_time", <<"with", "optional_naive_date_time_from_str">>, TRUE>>,
                <<"last_price", <<"f64">>, FALSE>>,
                <<"last_quantity", <<"i64">>, FALSE>>,
                <<"buy_quantity", <<"u64">>, FALSE>>,
                <<"sell_quantity", <<"u64">>, FALSE>>,
                <<"volume", <<"u64">>, FALSE>>,
                <<"average_price", <<"f64">>, FALSE>>,
                <<"oi", <<"u64">>, FALSE>>,
                <<"oi_day_high", <<"u64">>, FALSE>>,
                <<"oi_day_low", <<"u64">>, FALSE>>,
                <<"net_change", <<"f64">>, FALSE>>,
                <<"lower_circuit_limit", <<"f64">>, FALSE>>,
                <<"upper_circuit_limit", <<"f64">>, FALSE>>,
                <<"ohlc", <<"OhlcInner">>, FALSE>>,
                <<"depth", <<"Depth">>, FALSE>> >>
      [] ty = <<"Depth">> ->
             << <<"buy", <<"Vec", <<"OrderDepth">> >>, FALSE>>,
                <<"sell", <<"Vec", <<"OrderDepth">> >>, FALSE>> >>
      [] ty = <<"OrderDepth">> ->
             << <<"price", <<"f64">>, FALSE>>,
                <<"quantity", <<"u64">>, FALSE>>,
                <<"orders", <<"u64">>, FALSE>> >>
      [] ty = <<"OhlcInner">> ->
             << <<"open", <<"f64">>, FALSE>>,
                <<"high", <<"f64">>, FALSE>>,
                <<"low", <<"f64">>, FALSE>>,
                <<"close", <<"f64">>, FALSE>> >>

IsStruct(ty) ==
    ty \in {<<"Quote">>, <<"QuoteData">>, <<"Depth">>, <<"OrderDepth">>, <<"OhlcInner">>}

\* the variants of the enums and the text each is written as: Status has
\* #[serde(rename_all = "lowercase")], Exception keeps its variant names
VariantText(ty) ==
    CASE ty = <<"Status">> ->
             [Success |-> <<"s", "u", "c", "c", "e", "s", "s">>,
              Error |-> <<"e", "r", "r", "o", "r">>,
              Failed |-> <<"f", "a", "i", "l", "e", "d">>]
      [] ty = <<"Exception">> ->
             [TokenException |-> <<"T", "o", "k", "e", "n", "E", "x", "c", "e", "p", "t", "i", "o", "n">>,
              UserException |-> <<"U", "s", "e", "r", "E", "x", "c", "e", "p", "t", "i", "o", "n">>,
              OrderException |-> <<"O", "r", "d", "e", "r", "E", "x", "c", "e", "p", "t", "i", "o", "n">>,
              InputException |-> <<"I", "n", "p", "u", "t", "E", "x", "c", "e", "p", "t", "i", "o", "n">>,
              NetworkException |-> <<"N", "e", "t", "w", "o", "r", "k", "E", "x", "c", "e", "p", "t", "i", "o", "n">>,
              DataException |-> <<"D", "a", "t", "a", "E", "x", "c", "e", "p", "t", "i", "o", "n">>,
              GeneralException |-> <<"G", "e", "n", "e", "r", "a", "l", "E", "x", "c", "e", "p", "t", "i", "o", "n">>]

IsEnum(ty) == ty \in {<<"Status">>, <<"Exception">>}

\* Result<T, D::Error>
DeOk(x) == [ok |-> TRUE, value |-> Some(x), err |-> ""]

DeErr(e) == [ok |-> FALSE, value |-> None, err |-> e]

\* <String as Deserialize>::deserialize on a serde_json value
DeserializeString(v) ==
    IF v.kind = "string" THEN DeOk(v.text) ELSE DeErr("invalid type")

\* optional_naive_date_time_from_str::deserialize: `Err(_) => None` on the
\* text, then `None => Ok(None)`, and the text parsed with DT_FORMAT,
\* `.map(Some).map_err(de::Error::custom)`
optional_naive_date_time_from_str_deserialize(v) ==
    LET naive_date_time_string == DeserializeString(v)
        maybe_naive_date_time_string ==
            IF naive_date_time_string.ok THEN Some(naive_date_time_string.value[1]) ELSE None
    IN  IF maybe_naive_date_time_string = None THEN DeOk(None)
        ELSE LET parsed == ParseFromStr(maybe_naive_date_time_string[1])
             IN  IF parsed.ok THEN DeOk(Some(parsed.value[1])) ELSE DeErr("custom")

\* MissingField of a visitor for which every field is required
MissingField_required(ty) == DeErr("missing field")

\* what the derived visitor takes for a field whose key the object lacks: None
\* for a plain Option field, and the error `missing field` for any other field,
\* a field with deserialize_with included
MissingField(ty) ==
    IF ty[1] = "Option" THEN DeOk(None) ELSE DeErr("missing field")

\* <T as Deserialize>::deserialize on a serde_json value (a struct is read
\* from an object)
RECURSIVE Deserialize(_, _)
Deserialize(ty, v) ==
    CASE ty[1] \in {"u64", "i64"} ->
             IF v.kind = "int" THEN DeOk(v.text) ELSE DeErr("invalid type")
      [] ty[1] = "f64" ->
             IF v.kind = "float" THEN DeOk(v.text)
             ELSE IF v.kind = "int" THEN DeOk(v.text \o ".0")
             ELSE DeErr("invalid type")
      [] ty[1] = "String" -> DeserializeString(v)
      [] ty[1] = "with" -> optional_naive_date_time_from_str_deserialize(v)
      [] ty[1] = "Option" ->
             IF v.kind = "null" THEN DeOk(None)
             ELSE LET inner == Deserialize(ty[2], v)
                  IN  IF inner.ok THEN DeOk(Some(inner.value[1])) ELSE inner
      [] ty[1] = "Vec" ->
             IF v.kind # "array" THEN DeErr("invalid type")
             ELSE LET item(n) == Deserialize(ty[2], v.items[n])
                  IN  IF \E n \in 1..Len(v.items) : ~item(n).ok
                      THEN DeErr(item(CHOOSE n \in 1..Len(v.items) :
                                          /\ ~item(n).ok
                                          /\ \A m \in 1..(n - 1) : item(m).ok).err)
                      ELSE DeOk([n \in 1..Len(v.items) |-> item(n).value[1]])
      [] ty[1] = "HashMap" ->
             IF v.kind # "object" THEN DeErr("invalid type")
             ELSE LET entry(k) == Deserialize(ty[2], v.members[k])
                  IN  IF \E k \in DOMAIN v.members : ~entry(k).ok
                      THEN DeErr(entry(CHOOSE k \in DOMAIN v.members : ~entry(k).ok).err)
                      ELSE DeOk([k \in DOMAIN v.members |-> entry(k).value[1]])
      [] IsEnum(ty) ->
             IF v.kind # "string" THEN DeErr("invalid type")
             ELSE IF \E variant \in DOMAIN VariantText(ty) : VariantText(ty)[variant] = v.text
             THEN DeOk(CHOOSE variant \in DOMAIN VariantText(ty) : VariantText(ty)[variant] = v.text)
             ELSE DeErr("unknown variant")
      [] IsStruct(ty) ->
             IF v.kind # "object" THEN DeErr("invalid type")
             ELSE LET fields == StructFields(ty)
                      present(n) == fields[n][1] \in DOMAIN v.members
                      field(n) == IF present(n) THEN Deserialize(fields[n][2], v.members[fields[n][1]])
                                  ELSE MissingField(fields[n][2])
                      index(name) == CHOOSE n \in 1..Len(fields) : fields[n][1] = name
                  IN  IF \E n \in 1..Len(fields) : present(n) /\ ~field(n).ok
                      THEN DeErr(field(CHOOSE n \in 1..Len(fields) :
                                           /\ present(n) /\ ~field(n).ok
                                           /\ \A m \in 1..(n - 1) : present(m) => field(m).ok).err)
                      ELSE IF \E n \in 1..Len(fields) : ~field(n).ok
                      THEN DeErr("missing field")
                      ELSE DeOk([name \in {fields[n][1] : n \in 1..Len(fields)} |->
                                    field(index(name)).value[1]])

\* optional_naive_date_time_from_str::serialize: serialize_some of the
\* formatted text, serialize_none otherwise
optional_naive_date_time_from_str_serialize(naive_date_time) ==
    IF naive_date_time # None THEN JsonString(Format(naive_date_time[1])) ELSE JsonNull

\* <T as Serialize>::serialize into a serde_json value; a field marked
\* skip_serializing_if = "Option::is_none" is left out when it is None
RECURSIVE Serialize(_, _)
Serialize(ty, x) ==
    CASE ty[1] \in {"u64", "i64"} -> [kind |-> "int", text |-> x]
      [] ty[1] = "f64" -> [kind |-> "float", text |-> x]
      [] ty[1] = "String" -> JsonString(x)
      [] ty[1] = "with" -> optional_naive_date_time_from_str_serialize(x)
      [] ty[1] = "Option" -> IF x = None THEN JsonNull ELSE Serialize(ty[2], x[1])
      [] ty[1] = "Vec" -> JsonArray([n \in 1..Len(x) |-> Serialize(ty[2], x[n])])
      [] ty[1] = "HashMap" -> JsonObject([k \in DOMAIN x |-> Serialize(ty[2], x[k])])
      [] IsEnum(ty) -> JsonString(VariantText(ty)[x])
      [] IsStruct(ty) ->
             LET fields == StructFields(ty)
                 kept == {n \in 1..Len(fields) : ~(fields[n][3] /\ x[fields[n][1]] = None)}
                 index(name) == CHOOSE n \in kept : fields[n][1] = name
             IN  JsonObject([name \in {fields[n][1] : n \in kept} |->
                                Serialize(fields[index(name)][2], x[name])])

\* serde_json::from_str::<Quote> / from_reader::<_, Quote>
from_str(doc) == Deserialize(<<"Quote">>, doc)

\* serde_json::to_string(&quote)
to_string(quote_value) == Serialize(<<"Quote">>, quote_value)

(* ----------------------- Quote values and documents --------------------- *)

\* NaiveDate::from_ymd(2021, 6, 8).and_hms(15, 45, 56) and .and_hms(15, 45, 52)
InfyTimestamp ==
    [year |-> 2021, month |-> 6, day |-> 8, hour |-> 15, minute |-> 45, second |-> 56, leap |-> FALSE]

InfyLastTradeTime ==
    [year |-> 2021, month |-> 6, day |-> 8, hour |-> 15, minute |-> 45, second |-> 52, leap |-> FALSE]

\* a date-time with one-digit parts and a three-digit year, at a leap second
EarlyTimestamp ==
    [year |-> 987, month |-> 2, day |-> 9, hour |-> 3, minute |-> 4, second |-> 59, leap |-> TRUE]

\* the QuoteData that tests::test_quote_json expects under "NSE:INFY"
InfyQuoteData ==
    [instrument_token |-> "408065",
     timestamp |-> Some(InfyTimestamp),
     last_trade_time |-> Some(InfyLastTradeTime),
     last_price |-> "1412.95",
     last_quantity |-> "5",
     buy_quantity |-> "0",
     sell_quantity |-> "5191",
     volume |-> "7360198",
     average_price |-> "1412.47",
     oi |-> "0",
     oi_day_high |-> "0",
     oi_day_low |-> "0",
     net_change |-> "0.0",
     lower_circuit_limit |-> "1250.7",
     upper_circuit_limit |-> "1528.6",
     ohlc |-> [open |-> "1396.0", high |-> "1421.75", low |-> "1395.55", close |-> "1389.65"],
     depth |-> [buy |-> Repeat([price |-> "0.0", quantity |-> "0", orders |-> "0"], 5),
                sell |-> <<[price |-> "1412.95", quantity |-> "5191", orders |-> "13"]>>
                         \o Repeat([price |-> "0.0", quantity |-> "0", orders |-> "0"], 4)]]

\* "Error message".to_owned()
ErrorMessage == <<"E", "r", "r", "o", "r", " ", "m", "e", "s", "s", "a", "g", "e">>

\* the Quote values that are serialized
QuoteValues ==
    {[status |-> status, data |-> data, message |-> message, error_type |-> error_type] :
        status \in {"Success", "Error"},
        data \in {None, Some(<< >>)}
                 \cup {Some([symbol \in {"NSE:INFY"} |->
                                [InfyQuoteData EXCEPT !.timestamp = timestamp,
                                                      !.last_trade_time = last_trade_time]]) :
                          timestamp \in {None, Some(InfyTimestamp), Some(EarlyTimestamp)},
                          last_trade_time \in {None, Some(InfyLastTradeTime)}},
        message \in {None, Some(ErrorMessage)},
        error_type \in {None, Some("GeneralException")}}

\* the object under "NSE:INFY" of kiteconnect-mocks/quote.json, which
\* tests::test_quote_json reads
InfyJson ==
    [instrument_token |-> [kind |-> "int", text |-> "408065"],
     timestamp |-> JsonString(<<"2", "0", "2", "1", "-", "0", "6", "-", "0", "8", " ", "1", "5", ":", "4", "5", ":", "5", "6">>),
     last_trade_time |-> JsonString(<<"2", "0", "2", "1", "-", "0", "6", "-", "0", "8", " ", "1", "5", ":", "4", "5", ":", "5", "2">>),
     last_price |-> [kind |-> "float", text |-> "1412.95"],
     last_quantity |-> [kind |-> "int", text |-> "5"],
     buy_quantity |-> [kind |-> "int", text |-> "0"],
     sell_quantity |-> [kind |-> "int", text |-> "5191"],
     volume |-> [kind |-> "int", text |-> "7360198"],
     average_price |-> [kind |-> "float", text |-> "1412.47"],
     oi |-> [kind |-> "int", text |-> "0"],
     oi_day_high |-> [kind |-> "int", text |-> "0"],
     oi_day_low |-> [kind |-> "int", text |-> "0"],
     net_change |-> [kind |-> "int", text |-> "0"],
     lower_circuit_limit |-> [kind |-> "float", text |-> "1250.7"],
     upper_circuit_limit |-> [kind |-> "float", text |-> "1528.6"],
     ohlc |-> JsonObject([open |-> [kind |-> "int", text |-> "1396"],
                          high |-> [kind |-> "float", text |-> "1421.75"],
                          low |-> [kind |-> "float", text |-> "1395.55"],
                          close |-> [kind |-> "float", text |-> "1389.65"]]),
     depth |-> JsonObject(
         [buy |-> JsonArray(Repeat(JsonObject([price |-> [kind |-> "int", text |-> "0"],
                                               quantity |-> [kind |-> "int", text |-> "0"],
                                               orders |-> [kind |-> "int", text |-> "0"]]), 5)),
          sell |-> JsonArray(<<JsonObject([price |-> [kind |-> "float", text |-> "1412.95"],
                                           quantity |-> [kind |-> "int", text |-> "5191"],
                                           orders |-> [kind |-> "int", text |-> "13"]])>>
                             \o Repeat(JsonObject([price |-> [kind |-> "int", text |-> "0"],
                                                   quantity |-> [kind |-> "int", text |-> "0"],
                                                   orders |-> [kind |-> "int", text |-> "0"]]), 4))])]

\* an object without one of its keys
Without(members, key) == [k \in (DOMAIN members) \ {key} |-> members[k]]

\* an object with key set to value; the value "missing" leaves the key out
With(members, key, value) ==
    IF value = [kind |-> "missing", text |-> ""] THEN Without(members, key)
    ELSE [k \in (DOMAIN members) \cup {key} |-> IF k = key THEN value ELSE members[k]]

JsonMissing == [kind |-> "missing", text |-> ""]

\* what a document may hold for timestamp and last_trade_time: the text of the
\* mock, a date without a time, a number, null, or no such key
TimestampJson(valid) ==
    {JsonString(valid), JsonString(<<"2", "0", "2", "1", "-", "0", "6", "-", "0", "8">>),
     [kind |-> "int", text |-> "1623167156"], JsonNull, JsonMissing}

\* the documents that are decoded: the quote of "NSE:INFY" under each pair of
\* timestamp and last_trade_time, and the envelopes made of each status, data,
\* message and error_type (r#"{"status":"success","data":{}}"# and
\* r#"{"status":"error","message":"Error message","error_type":"GeneralException"}"#
\* of the tests among them)
QuoteDocs ==
    {JsonObject([status |-> JsonString(VariantText(<<"Status">>).Success),
                 data |-> JsonObject([symbol \in {"NSE:INFY"} |->
                     JsonObject(With(With(InfyJson, "timestamp", timestamp),
                                     "last_trade_time", last_trade_time))])]) :
        timestamp \in TimestampJson(InfyJson.timestamp.text),
        last_trade_time \in TimestampJson(InfyJson.last_trade_time.text)}
    \cup
    {JsonObject(With(With(With(With(<< >>, "status", status), "data", data),
                          "message", message), "error_type", error_type)) :
        status \in {JsonString(VariantText(<<"Status">>).Success),
                    JsonString(VariantText(<<"Status">>).Error), JsonMissing},
        data \in {JsonMissing, JsonNull, JsonObject(<< >>),
                  JsonObject([symbol \in {"NSE:INFY"} |-> JsonObject(InfyJson)])},
        message \in {JsonMissing, JsonNull, JsonString(ErrorMessage)},
        error_type \in {JsonMissing, JsonNull,
                        JsonString(VariantText(<<"Exception">>).GeneralException)}}

\* what serde_json::from_str returns for each document
FromStrReturns ==
    {[fn |-> "from_str", json |-> doc, from |-> None, res |-> from_str(doc)] : doc \in QuoteDocs}

\* a call of serde_json::from_str::<Quote>, on one of the documents or on what
\* to_string has just returned; like the JSON reader, the decoding is
\* independent of the materializers and comes first
from_str_call ==
    /\ pc = "idle" /\ prev = None
    /\ \/ /\ ret = None
          /\ ret' \in {Some(r) : r \in FromStrReturns}
       \/ /\ ret # None /\ ret[1].fn = "to_string"
          /\ ret' = Some([fn |-> "from_str", json |-> ret[1].res.json,
                          from |-> Some(ret[1].value), res |-> from_str(ret[1].res.json)])
    /\ UNCHANGED <<quote, fn, pc, iter, i, vecs, buf, dfbuf, series_buf, prev, written>>

\* a call of serde_json::to_string on a Quote
to_string_call ==
    /\ pc = "idle" /\ prev = None /\ ret = None
    /\ \E quote_value \in QuoteValues :
           ret' = Some([fn |-> "to_string", value |-> quote_value,
                        res |-> [ok |-> TRUE, json |-> to_string(quote_value), err |-> ""]])
    /\ UNCHANGED <<quote, fn, pc, iter, i, vecs, buf, dfbuf, series_buf, prev, written>>

(* ---------------------------- specification ---------------------------- *)

Next ==
    \/ raghu_call \/ raghu_for \/ raghu_return
    \/ v0_call \/ v0_for \/ v0_assert \/ v0_overwrite \/ v0_return
    \/ v1_call \/ v1_for \/ v1_return
    \/ v2_call \/ v2_for \/ v2_convert \/ v2_push \/ v2_return
    \/ v3_call \/ v3_for \/ v3_assert \/ v3_overwrite \/ v3_return
    \/ rows_cols_call \/ rows_cols_for \/ rows_cols_return
    \/ json_call
    \/ from_str_call \/ to_string_call

Spec == Init /\ [][Next]_vars

(* ------------------------------- claims -------------------------------- *)

\* the six functions over Quotes
Materializers == {"raghu", "v0", "v1", "v2", "v3", "rows_cols"}

\* the Schema Definition of the specification, in its fixed order
SchemaDefinition ==
    << <<"symbol", "String">>, <<"instrument_token", "UInt64">>, <<"timestamp", "String">>,
       <<"last_trade_time", "String">>, <<"last_price", "Float64">>, <<"last_quantity", "UInt64">>,
       <<"buy_quantity", "UInt64">>, <<"sell_quantity", "UInt64">>, <<"volume", "UInt64">>,
       <<"average_price", "Float64">>, <<"oi", "UInt64">>, <<"oi_day_high", "UInt64">>,
       <<"oi_day_low", "UInt64">>, <<"net_change", "Float64">>,
       <<"lower_circuit_limit", "Float64">>, <<"upper_circuit_limit", "Float64">>,
       <<"open", "Float64">>, <<"high", "Float64">>, <<"low", "Float64">>, <<"close", "Float64">> >>

\* the field of the record (or the key) that the column of this name stands for
RecordField(symbol, q, name) ==
    CASE name = "symbol" -> symbol
      [] name \in {"open", "high", "low", "close"} -> q.ohlc[name]
      [] name \in {SchemaDefinition[k][1] : k \in 1..Len(SchemaDefinition)} -> q[name]
      [] OTHER -> "no such field"

\* a materializer has returned
Returned == ret # None /\ ret[1].fn \in Materializers

\* the decoder has returned
Decoded == ret # None /\ ret[1].fn = "json"

Height(cols) == IF cols = << >> THEN 0 ELSE Len(cols[1].values)

RowOf(cols, r) == [c \in 1..Len(cols) |-> cols[c].values[r]]

\* how many rows of the table are equal to row
Occurrences(cols, row) == Cardinality({r \in 1..Height(cols) : RowOf(cols, r) = row})

\* all columns have the same length
Rectangular(cols) == \A c \in 1..Len(cols) : Len(cols[c].values) = Height(cols)

HasColumn(cols, name) == \E c \in 1..Len(cols) : cols[c].name = name

Column(cols, name) == cols[CHOOSE c \in 1..Len(cols) : cols[c].name = name]

SameTables(a, b) ==
    /\ Len(a) = Len(b)
    /\ \A c \in 1..Len(a) : a[c].name = b[c].name /\ a[c].dtype = b[c].dtype
    /\ Rectangular(a) /\ Rectangular(b)
    /\ Height(a) = Height(b)
    /\ \A r \in 1..Height(a) : Occurrences(a, RowOf(a, r)) = Occurrences(b, RowOf(a, r))

\* C1: two different materializers called on the same map, whatever the two
\* iteration orders, both return a table, and the two tables have the same
\* column names, the same column types, the same row count and the same
\* multiset of rows.
C1_CrossStrategyEquivalence ==
    (Returned /\ prev # None /\ prev[1].fn # ret[1].fn) =>
        /\ ret[1].res.ok /\ prev[1].res.ok
        /\ SameTables(ret[1].res.table[1], prev[1].res.table[1])

\* row-then-transpose and direct-append have returned two-row tables whose rows
\* come in different orders
C1_Witness ==
    /\ Returned /\ prev # None
    /\ ret[1].fn = "rows_cols" /\ prev[1].fn = "raghu"
    /\ ret[1].res.ok /\ prev[1].res.ok
    /\ Height(ret[1].res.table[1]) = 2
    /\ ret[1].res.table[1][1].values # prev[1].res.table[1][1].values
    /\ ret[1].res.table[1][2].values # prev[1].res.table[1][2].values

\* C2: in a returned table, the symbol cell of every row is a key of the map,
\* and the other cells of that row are the fields of the record under that key.
C2_ColumnAlignment ==
    (Returned /\ ret[1].res.ok) =>
        LET cols == ret[1].res.table[1]
        IN  /\ HasColumn(cols, "symbol")
            /\ Rectangular(cols)
            /\ \A r \in 1..Height(cols) :
                   LET key == Column(cols, "symbol").values[r]
                   IN  /\ key # None
                       /\ key[1] \in DOMAIN quote
                       /\ \A c \in 1..Len(cols) :
                              cols[c].values[r] = Some(RecordField(key[1], quote[key[1]], cols[c].name))

\* indexed-write has returned a table over two entries that carry different records
C2_Witness ==
    /\ Returned /\ ret[1].fn = "v1" /\ ret[1].res.ok
    /\ Height(ret[1].res.table[1]) = 2
    /\ \E a, b \in DOMAIN quote : quote[a] # quote[b]

\* C3: every materializer returns a table (not an error) whose row count is the
\* size of the map; for the empty map the table has 0 rows and 20 columns.
C3_RowCount ==
    Returned =>
        /\ ret[1].res.ok
        /\ Rectangular(ret[1].res.table[1])
        /\ Height(ret[1].res.table[1]) = Cardinality(DOMAIN quote)
        /\ (DOMAIN quote = {} => Len(ret[1].res.table[1]) = 20)

\* placeholder-then-overwrite has returned the table of the empty map
C3_Witness ==
    /\ Returned /\ ret[1].fn = "v0" /\ DOMAIN quote = {}
    /\ ret[1].res.ok
    /\ Len(ret[1].res.table[1]) = 20
    /\ \A c \in 1..20 : ret[1].res.table[1][c].values = << >>

\* C4: a returned table has exactly 20 columns, the i-th with the name and the
\* type of the i-th pair of the Schema Definition, all of the same length; and
\* no call ends with a column-length mismatch.
C4_SchemaConformance ==
    Returned =>
        /\ ret[1].res.err # "ColumnLengthMismatch"
        /\ ret[1].res.ok =>
               LET cols == ret[1].res.table[1]
               IN  /\ Len(cols) = 20
                   /\ Len(SchemaDefinition) = 20
                   /\ \A k \in 1..Len(cols) :
                          /\ cols[k].name = SchemaDefinition[k][1]
                          /\ cols[k].dtype = SchemaDefinition[k][2]
                          /\ Len(cols[k].values) = Len(cols[1].values)

\* v3 has returned a table with rows
C4_Witness ==
    /\ Returned /\ ret[1].fn = "v3" /\ ret[1].res.ok
    /\ Height(ret[1].res.table[1]) >= 1
    /\ ret[1].res.table[1][6].name = "last_quantity"
    /\ ret[1].res.table[1][6].dtype = "UInt64"

\* C5: for every entry of the map the returned table has a row whose cell in
\* each of the 20 columns is the record's field of that name (open, high, low
\* and close from ohlc, symbol from the key); depth gives no column; and the
\* one-entry map "NSE:INFY" gives one row with 408065 and 1396.0.
C5_VerbatimCopy ==
    Returned =>
        /\ ret[1].res.ok
        /\ LET cols == ret[1].res.table[1]
           IN  /\ Len(cols) = Len(SchemaDefinition)
               /\ \A k \in 1..Len(SchemaDefinition) : HasColumn(cols, SchemaDefinition[k][1])
               /\ \A name \in {"depth", "buy", "sell", "ohlc"} : ~HasColumn(cols, name)
               /\ \A symbol \in DOMAIN quote :
                      \E r \in 1..Height(cols) :
                          \A k \in 1..Len(SchemaDefinition) :
                              Column(cols, SchemaDefinition[k][1]).values[r] =
                                  Some(RecordField(symbol, quote[symbol], SchemaDefinition[k][1]))
               /\ (DOMAIN quote = {"NSE:INFY"} /\ quote["NSE:INFY"] = InfyData) =>
                      /\ Height(cols) = 1
                      /\ Column(cols, "symbol").values = <<Some("NSE:INFY")>>
                      /\ Column(cols, "instrument_token").values = <<Some("408065")>>
                      /\ Column(cols, "open").values = <<Some("1396.0")>>

\* generic-value staging has returned the table of the one-entry map "NSE:INFY"
C5_Witness ==
    /\ Returned /\ ret[1].fn = "v2" /\ ret[1].res.ok
    /\ DOMAIN quote = {"NSE:INFY"} /\ quote["NSE:INFY"] = InfyData
    /\ Column(ret[1].res.table[1], "close").values = <<Some("1389.65")>>

\* C7: a call that ends with TypeMismatch is a call of generic-value staging or
\* of row-then-transpose; direct-append, placeholder-then-overwrite and the
\* indexed writes never end with it.
C7_CoercionFree ==
    (ret # None /\ ret[1].res.err = "TypeMismatch") => ret[1].fn \in {"v2", "rows_cols"}

\* indexed-write has returned over a map with entries
C7_Witness ==
    /\ Returned /\ ret[1].fn = "v1" /\ DOMAIN quote # {}
    /\ ret[1].res.ok
    /\ ret[1].res.err = ""

C9_SchemaPrecedence ==
    Decoded =>
        /\ ret[1].res.ok =>
               \A k \in 1..Len(json_schema) :
                   /\ HasColumn(ret[1].res.table[1], json_schema[k].name)
                   /\ Column(ret[1].res.table[1], json_schema[k].name).dtype = json_schema[k].dtype
        /\ (/\ ret[1].json # << >>
            /\ \A r \in 1..Len(ret[1].json) : ret[1].json[r] \in {JsonRow, JsonRowIntLike, JsonRowNull})
               => ret[1].res.ok

\* the decoder has read a document whose sampled rows all write `open` as an
\* integer, followed by a row that writes it as a float: the column is Float64
C9_Witness ==
    /\ Decoded /\ ret[1].res.ok
    /\ Len(ret[1].json) = InferSchemaLen + 1
    /\ ret[1].json[1] = JsonRowIntLike
    /\ ret[1].json[InferSchemaLen + 1] = JsonRow
    /\ InferKey(ret[1].json, "open", InferSchemaLen) = "Int64"
    /\ Column(ret[1].res.table[1], "open").dtype = "Float64"
    /\ Column(ret[1].res.table[1], "open").values[1] = Some("1396.0")

\* the fields that the specification lets a record go without
OptionalFields == {"timestamp", "last_trade_time"}

\* C11: in a returned table, the cell of an optional field (timestamp,
\* last_trade_time) that the record of that row does not carry is null, not an
\* error and not an ordinary value such as the empty string.  QuotesData
\* declares both fields String, so a record built without them holds
\* String::default().
C11_AbsentMarker ==
    Returned =>
        /\ ret[1].res.ok
        /\ LET cols == ret[1].res.table[1]
           IN  \A symbol \in DOMAIN quote : \A name \in OptionalFields :
                   quote[symbol][name] = "" =>
                       \A r \in 1..Height(cols) :
                           Column(cols, "symbol").values[r] = Some(symbol) =>
                               Column(cols, name).values[r] = None

\* the multiset of the cells of a column, as the number of times each cell occurs
CellCount(col, cell) == Cardinality({r \in 1..Len(col.values) : col.values[r] = cell})

\* C12: the same materializer called twice on the same map, whatever the two
\* iteration orders, returns two tables that have the same rows (each row of
\* one occurs as often in the other, so the fields of a row stay together) and,
\* column by column, the same multiset of values; only the order of the rows
\* may differ.
C12_OrderInsensitive ==
    (Returned /\ prev # None /\ prev[1].fn = ret[1].fn) =>
        /\ ret[1].res.ok /\ prev[1].res.ok
        /\ LET a == ret[1].res.table[1]
               b == prev[1].res.table[1]
           IN  /\ Len(a) = Len(b)
               /\ Rectangular(a) /\ Rectangular(b)
               /\ Height(a) = Height(b)
               /\ \A r \in 1..Height(b) : Occurrences(a, RowOf(b, r)) = Occurrences(b, RowOf(b, r))
               /\ \A c \in 1..Len(a) :
                      /\ a[c].name = b[c].name
                      /\ \A r \in 1..Len(a[c].values) :
                             CellCount(a[c], a[c].values[r]) = CellCount(b[c], a[c].values[r])

\* indexed-write has been called twice on a map of two entries with different
\* records, and the rows of the two tables come in opposite orders
C12_Witness ==
    /\ Returned /\ prev # None
    /\ ret[1].fn = "v1" /\ prev[1].fn = "v1"
    /\ ret[1].res.ok /\ prev[1].res.ok
    /\ Height(ret[1].res.table[1]) = 2
    /\ RowOf(ret[1].res.table[1], 1) = RowOf(prev[1].res.table[1], 2)
    /\ RowOf(ret[1].res.table[1], 2) = RowOf(prev[1].res.table[1], 1)
    /\ RowOf(ret[1].res.table[1], 1) # RowOf(ret[1].res.table[1], 2)

\* serde_json::from_str has returned
FromStr == ret # None /\ ret[1].fn = "from_str"

\* the QuoteData objects of a document, by symbol (none when data is not an object)
QuoteObjects(doc) ==
    IF "data" \in DOMAIN doc.members /\ doc.members.data.kind = "object"
    THEN doc.members.data.members
    ELSE << >>

\* decoding this value as a date-time fails: it is neither text nor null, or
\* it is text that is not in the format
FieldFailure(v) ==
    \/ v.kind \notin {"string", "null"}
    \/ v.kind = "string" /\ ~ParseFromStr(v.text).ok

\* C13: no error is swallowed: when decoding a field fails (here a timestamp
\* or last_trade_time that is a number, or text that is not a date-time), the
\* caller gets an error result, never a record in which the field is absent or
\* has a default value.
C13_NoErrorSwallowed ==
    FromStr =>
        LET quotes == QuoteObjects(ret[1].json)
        IN  (\E symbol \in DOMAIN quotes : \E name \in OptionalFields :
                 /\ quotes[symbol].kind = "object"
                 /\ name \in DOMAIN quotes[symbol].members
                 /\ FieldFailure(quotes[symbol].members[name]))
            => ~ret[1].res.ok

\* a Quote was serialized and what to_string returned has been decoded
RoundTrip == FromStr /\ ret[1].from # None

\* text in the form YYYY-MM-DD HH:MM:SS
IsDateTimeText(s) ==
    /\ Len(s) = 19
    /\ s[5] = "-" /\ s[8] = "-" /\ s[11] = " " /\ s[14] = ":" /\ s[17] = ":"
    /\ \A n \in (1..19) \ {5, 8, 11, 14, 17} : IsDigit(s[n])

\* the records of a Quote, by symbol (none when data is None)
QuoteRecords(quote_value) == IF quote_value.data = None THEN << >> ELSE quote_value.data[1]

\* timestamp and last_trade_time of the records that were serialized, each
\* present one written as text of the form YYYY-MM-DD HH:MM:SS under its key
\* and each absent one without a key, not as an empty string or null
WrittenAsSpecified ==
    LET records == QuoteRecords(ret[1].from[1])
        objects == QuoteObjects(ret[1].json)
    IN  /\ DOMAIN objects = DOMAIN records
        /\ \A symbol \in DOMAIN records : \A name \in OptionalFields :
               IF records[symbol][name] # None
               THEN /\ name \in DOMAIN objects[symbol].members
                    /\ objects[symbol].members[name].kind = "string"
                    /\ IsDateTimeText(objects[symbol].members[name].text)
               ELSE name \notin DOMAIN objects[symbol].members

\* C14: timestamp and last_trade_time of a record survive serialization and
\* decoding: a present value is written as text YYYY-MM-DD HH:MM:SS and decodes
\* to the same value; an absent value is left out of the serialized record and
\* decodes as absent.
C14_TimestampRoundTrip ==
    RoundTrip =>
        /\ WrittenAsSpecified
        /\ ret[1].res.ok
        /\ LET records == QuoteRecords(ret[1].from[1])
               decoded == QuoteRecords(ret[1].res.value[1])
           IN  /\ DOMAIN decoded = DOMAIN records
               /\ \A symbol \in DOMAIN records : \A name \in OptionalFields :
                      decoded[symbol][name] = records[symbol][name]

\* the document has a value other than null under this key
Carries(doc, key) == key \in DOMAIN doc.members /\ doc.members[key].kind # "null"

\* C15: decoding an envelope keeps the presence of its optional parts.  A
\* document with a valid status whose data, if any, is null or an empty object
\* decodes; in every decoded Quote, data is present exactly when the document
\* has an object under "data", with the keys of that object (none for {}),
\* and message and error_type are present exactly when the document carries
\* them (a value other than null), with the value it carries.  So an error
\* response without data gives status Error and data None, and a success
\* response with {} gives Some of the empty map and neither message nor
\* error_type.
C15_EnvelopePresence ==
    FromStr =>
        LET doc == ret[1].json
            res == ret[1].res
        IN  /\ (/\ Carries(doc, "status")
                /\ ~Carries(doc, "data") \/ doc.members.data = JsonObject(<< >>))
               => res.ok
            /\ res.ok =>
                   LET q == res.value[1]
                   IN  /\ Carries(doc, "status")
                       /\ VariantText(<<"Status">>)[q.status] = doc.members.status.text
                       /\ q.data # None <=> (Carries(doc, "data") /\ doc.members.data.kind = "object")
                       /\ q.data # None => DOMAIN q.data[1] = DOMAIN doc.members.data.members
                       /\ q.message # None <=> Carries(doc, "message")
                       /\ q.message # None => q.message[1] = doc.members.message.text
                       /\ q.error_type # None <=> Carries(doc, "error_type")
                       /\ q.error_type # None =>
                              VariantText(<<"Exception">>)[q.error_type[1]] = doc.members.error_type.text

\* the document of tests::test_quote_error has been decoded: status Error, no
\* data, the message and the error type
C15_Witness ==
    /\ FromStr /\ ret[1].from = None
    /\ DOMAIN ret[1].json.members = {"status", "message", "error_type"}
    /\ ret[1].json.members.message.kind = "string"
    /\ ret[1].json.members.error_type.kind = "string"
    /\ ret[1].res.ok
    /\ ret[1].res.value[1] = [status |-> "Error", data |-> None,
                              message |-> Some(ErrorMessage),
                              error_type |-> Some("GeneralException")]

\* the functions that assign by index
IndexWriting == {"v1", "v2", "v3"}

\* how many entries the loop of the running call has been through
Passed == IF pc = "loop" THEN i ELSE QuoteLen

\* C16: in v1, v2 and v3 the row of an entry is its position in the iteration
\* of the map.  No index is out of bounds (the call never panics); after the
\* loop has been through n entries, every one of the 20 scratch columns has
\* its slots 0..n-1 assigned exactly once, by the entries in iteration order,
\* and its other slots never assigned and still holding the pre-filled value;
\* at the end every slot has been assigned exactly once, and the table that
\* is returned has no null cell and, in every row, the fields of the record of
\* that row's symbol (so a pre-filled "", 0 or 0.0 is there only where the
\* record holds that value).
C16_IndexedWrites ==
    /\ fn \in IndexWriting => pc # "panic"
    /\ (fn \in {"v1", "v3"} /\ pc \in {"loop", "build"}) =>
           /\ DOMAIN vecs = VecNames /\ Cardinality(VecNames) = 20
           /\ \A v \in VecNames :
                  /\ Len(vecs[v]) = QuoteLen /\ Len(written[v]) = QuoteLen
                  /\ \A r \in 1..QuoteLen :
                         /\ written[v][r] = IF r <= Passed THEN 1 ELSE 0
                         /\ r > Passed => vecs[v][r] = (IF fn = "v1" THEN v1_init ELSE v3_init)[v]
           /\ \A r \in 1..Passed : vecs["symbols"][r] = iter[r]
    /\ (fn = "v2" /\ pc \in {"loop", "build"}) =>
           /\ Len(buf) = 20 /\ Len(written) = 20
           /\ \A k \in 1..20 :
                  /\ Len(buf[k]) = QuoteLen /\ Len(written[k]) = QuoteLen
                  /\ \A r \in 1..QuoteLen :
                         /\ written[k][r] = IF r <= Passed THEN 1 ELSE 0
                         /\ r > Passed <=> buf[k][r] = AnyNull
           /\ \A r \in 1..Passed : buf[1][r] = IntoAnyValue("String", iter[r])
    /\ (Returned /\ ret[1].fn \in IndexWriting) =>
           /\ \A c \in DOMAIN written : \A r \in 1..QuoteLen : written[c][r] = 1
           /\ ret[1].res.ok
           /\ LET cols == ret[1].res.table[1]
              IN  /\ Len(cols) = 20 /\ HasColumn(cols, "symbol")
                  /\ \A c \in 1..Len(cols) :
                         /\ Len(cols[c].values) = QuoteLen
                         /\ \A r \in 1..QuoteLen :
                                /\ cols[c].values[r] # None
                                /\ Column(cols, "symbol").values[r] # None
                                /\ LET key == Column(cols, "symbol").values[r][1]
                                   IN  /\ key \in DOMAIN quote
                                       /\ cols[c].values[r][1] = RecordField(key, quote[key], cols[c].name)

\* v3 is in its loop over two entries with records that differ from the
\* pre-filled values: the first row has been assigned, the second not yet
C16_Witness ==
    /\ fn = "v3" /\ pc = "loop" /\ i = 1 /\ QuoteLen = 2
    /\ quote[iter[1]] # DefaultData /\ quote[iter[2]] # DefaultData
    /\ \A v \in VecNames : written[v] = <<1, 0>>
    /\ vecs["closes"][1] = quote[iter[1]].ohlc.close
    /\ vecs["closes"][2] = "0.0"
    /\ vecs["symbols"][2] = ""

\* the functions that fill series_buf with placeholders first
PlaceholderFirst == {"v0", "v3"}

\* a column as `Series::new("symbol", vec![0u64; len])` builds it
IsPlaceholder(col) ==
    /\ col.name = "symbol"
    /\ col.dtype = "UInt64"
    /\ col.values = Repeat(Some("0"), QuoteLen)

\* C17: in v0 and v3, series_buf holds exactly 20 columns from the call to the
\* return; until the loop is over all 20 are placeholders (named "symbol",
\* unsigned zeros, one per entry); then the statements replace them one by one,
\* each at its own position and by the column of that position in the Schema
\* Definition, the others being left as they are; the table returned has 20
\* columns with pairwise different names, none of them a placeholder.
C17_PlaceholdersReplaced ==
    /\ fn \in PlaceholderFirst =>
           /\ pc # "panic"
           /\ Len(series_buf) = 20
           /\ \A k \in 1..20 :
                  IF pc = "build" /\ k <= i
                  THEN /\ ~IsPlaceholder(series_buf[k])
                       /\ series_buf[k].name = SchemaDefinition[k][1]
                       /\ series_buf[k].dtype = SchemaDefinition[k][2]
                       /\ Len(series_buf[k].values) = QuoteLen
                  ELSE IsPlaceholder(series_buf[k])
    /\ (Returned /\ ret[1].fn \in PlaceholderFirst) =>
           /\ ret[1].res.ok
           /\ LET cols == ret[1].res.table[1]
              IN  /\ Len(cols) = 20
                  /\ \A a, b \in 1..Len(cols) : cols[a].name = cols[b].name => a = b
                  /\ \A k \in 1..Len(cols) :
                         /\ ~IsPlaceholder(cols[k])
                         /\ cols[k].name = SchemaDefinition[k][1]
                         /\ cols[k].dtype = SchemaDefinition[k][2]

\* v0 has replaced its first six placeholders, for a map with entries: the
\* seventh column is still a placeholder of that length
C17_Witness ==
    /\ fn = "v0" /\ pc = "build" /\ i = 6 /\ QuoteLen = 2
    /\ series_buf[6].name = "last_quantity"
    /\ series_buf[6].values = <<Some(quote[iter[1]].last_quantity), Some(quote[iter[2]].last_quantity)>>
    /\ series_buf[7] = [name |-> "symbol", dtype |-> "UInt64", values |-> <<Some("0"), Some("0")>>]

\* the AnyValue tag of a cell that goes into a column of this type
TagOf(dtype) ==
    CASE dtype = "String" -> "StringOwned"
      [] dtype = "UInt64" -> "UInt64"
      [] dtype = "Float64" -> "Float64"

\* C18: in rows_cols, after the loop has been through n entries, dfbuf holds n
\* rows, the r-th being the 20 cells of the entry at position r of the
\* iteration, in the order of the Schema Definition, each with the tag of its
\* column's type and the value of its field of that entry's key and record;
\* so a row, once collected, stays as it was while buf is cleared and refilled
\* for the later entries, and buf holds nothing but the last row.
C18_BufferReuse ==
    (fn = "rows_cols" /\ pc = "loop") =>
        /\ Len(dfbuf) = i
        /\ buf = IF i = 0 THEN << >> ELSE dfbuf[i]
        /\ \A r \in 1..Len(dfbuf) :
               /\ Len(dfbuf[r]) = 20
               /\ \A c \in 1..Len(dfbuf[r]) :
                      /\ dfbuf[r][c].tag = TagOf(SchemaDefinition[c][2])
                      /\ dfbuf[r][c].val =
                             RecordField(iter[r], quote[iter[r]], SchemaDefinition[c][1])

\* rows_cols has been through two entries with different records: the first
\* row still holds the first entry and buf holds the second
C18_Witness ==
    /\ fn = "rows_cols" /\ pc = "loop" /\ i = 2
    /\ quote[iter[1]] # quote[iter[2]]
    /\ Len(dfbuf) = 2
    /\ dfbuf[1][1].val = iter[1] /\ dfbuf[2][1].val = iter[2]
    /\ dfbuf[1][2].val = quote[iter[1]].instrument_token
    /\ dfbuf[1][2].val # dfbuf[2][2].val
    /\ buf = dfbuf[2]

\* the outcomes of Result<Option<DataFrame>, PolarsError>
IsError(res) == ~res.ok /\ res.table = None /\ res.err # ""

IsPresentTable(res) == res.ok /\ res.table # None /\ res.err = ""

IsAbsentTable(res) == res.ok /\ res.table = None

\* C19: whatever document the decoder is called on, the empty array of rows
\* included, it returns either an error or Ok(Some(table)); Ok(None), which its
\* result type allows, is never returned.
C19_TwoOutcomes ==
    Decoded =>
        /\ IsError(ret[1].res) \/ IsPresentTable(ret[1].res)
        /\ ~IsAbsentTable(ret[1].res)

\* the decoder has returned for the empty array of rows, and what it returned
\* is not Ok(None)
C19_Witness ==
    /\ Decoded
    /\ ret[1].json = << >>
    /\ ret[1].res = json_result(<< >>, TRUE)
    /\ IsError(ret[1].res)

====
